---------------------------- MODULE Spec2Model ----------------------------
(***************************************************************************)
(* State-machine model of chain_reaction.dataframe_toolkit: the identifier *)
(* pattern, DataFrameContext, DataFrameRegistry, the persistence module    *)
(* (restore_from_state and its helpers) and the DataFrameToolkit facade.   *)
(*                                                                         *)
(* Strings are sequences of one-character strings so that the identifier   *)
(* pattern is matched character by character, as the regular expression    *)
(* does.  A DataFrame is represented by what the code reads from it: its   *)
(* height, its ordered column list and, per column, the statistics that    *)
(* ColumnSummary.from_series extracts.  Python dicts are insertion ordered: *)
(* the reference map is a sequence of references with pairwise distinct    *)
(* ids, in insertion order.                                                *)
(***************************************************************************)
EXTENDS Integers, Sequences, FiniteSets, TLC

(***************************************************************************)
(* Bounds of the model.                                                    *)
(***************************************************************************)
\* Number of distinct identifiers generate_dataframe_id can return.
NumIds == 3
\* Largest mapping handed to register_dataframes.
MaxBatch == 2

(***************************************************************************)
(* identifier.py                                                           *)
(***************************************************************************)
\* Length of the literal prefix "df_" of DATAFRAME_ID_PATTERN.
IdPrefixLen == 3
\* Number of hex characters required by DATAFRAME_ID_PATTERN ({8}).
IdHexLen == 8

HexChars == {"0", "1", "2", "3", "4", "5", "6", "7", "8", "9",
             "a", "b", "c", "d", "e", "f"}

\* Mutant: the pattern without its quantifier bound, any "df_" + hex+ matches.
DATAFRAME_ID_PATTERN_match_anylen(s) ==
    /\ Len(s) > IdPrefixLen
    /\ s[1] = "d" /\ s[2] = "f" /\ s[3] = "_"
    /\ \A i \in (IdPrefixLen + 1)..Len(s) : s[i] \in HexChars

\* re.compile(r"^df_[0-9a-f]{8}$").match(s): "df_", exactly eight characters
\* of [0-9a-f], then the end of the string; Python's "$" also matches just
\* before one trailing newline.
DATAFRAME_ID_PATTERN_match(s) ==
    /\ Len(s) \in {IdPrefixLen + IdHexLen, IdPrefixLen + IdHexLen + 1}
    /\ s[1] = "d" /\ s[2] = "f" /\ s[3] = "_"
    /\ \A i \in (IdPrefixLen + 1)..(IdPrefixLen + IdHexLen) : s[i] \in HexChars
    /\ Len(s) = IdPrefixLen + IdHexLen + 1 => s[Len(s)] = "\n"

Digits == <<"1", "2", "3", "4", "5", "6", "7", "8", "9">>

\* The i-th identifier generate_dataframe_id can return: "df_0000000<i>".
MkId(i) == <<"d", "f", "_", "0", "0", "0", "0", "0", "0", "0", Digits[i]>>

\* generate_dataframe_id(): "df_" + uuid4().hex[:8].  The value is random and
\* is not compared with the identifiers already in use: any identifier of
\* the universe may come back.
GeneratedIds == {MkId(i) : i \in 1..NumIds}

(***************************************************************************)
(* Display names and other strings callers pass.                           *)
(***************************************************************************)
N_sales == <<"s", "a", "l", "e", "s">>
\* "df_sales": resembles an id, is not eight hex characters.
N_df_sales == <<"d", "f", "_", "s", "a", "l", "e", "s">>
\* "df_abcd1234": matches the id pattern.
N_df_abcd1234 == <<"d", "f", "_", "a", "b", "c", "d", "1", "2", "3", "4">>

\* Names that pass the ambiguity guard.
PlainNames == {N_sales, N_df_sales}
\* Names callers try to register.
NameInputs == PlainNames \cup {N_df_abcd1234}
\* Strings callers look up: names and identifiers.
LookupInputs == NameInputs \cup GeneratedIds


(***************************************************************************)
(* Values of the statistics fields: float | str | None.                    *)
(* Floats are integers in units small enough for the relative tolerance    *)
(* to matter; NaN is a float of its own; strings are numbered.             *)
(***************************************************************************)
None == [t |-> "none", v |-> 0]
NaN == [t |-> "nan", v |-> 0]
Num(n) == [t |-> "num", v |-> n]
Str(k) == [t |-> "str", v |-> k]

\* 1 / rel_tol for the default rel_tol = 1e-9.
RelTolInv == 1000000000

Abs(n) == IF n < 0 THEN -n ELSE n
MaxOf(a, b) == IF a >= b THEN a ELSE b

\* math.isclose(a, b, rel_tol=1e-9) with abs_tol = 0 on finite values:
\* a == b or |a - b| <= rel_tol * max(|a|, |b|).
IsClose(a, b) ==
    \/ a = b
    \/ Abs(a - b) <= MaxOf(Abs(a), Abs(b)) \div RelTolInv

\* Mutant: NaN never equals NaN (plain float comparison).
floats_nearly_equal_nan_unequal(actual, expected) ==
    /\ actual.t = "num" /\ expected.t = "num"
    /\ IsClose(actual.v, expected.v)

\* _floats_nearly_equal(actual, expected, rel_tol): both float values.
floats_nearly_equal(actual, expected) ==
    IF actual.t = "nan" /\ expected.t = "nan" THEN TRUE
    ELSE IF actual.t = "nan" \/ expected.t = "nan" THEN FALSE
    ELSE IsClose(actual.v, expected.v)

\* True and False: bool is a subclass of int, True == 1 and False == 0.
Bool(b) == [t |-> "bool", v |-> IF b THEN 1 ELSE 0]

\* isinstance(x, (int, float))
IsNumber(x) == x.t \in {"num", "nan", "bool"}

\* Mutant: values are compared with ==, without tolerance.
values_nearly_equal_exact(actual, expected) ==
    actual.t # "nan" /\ actual = expected

\* _values_nearly_equal(actual, expected, rel_tol)
values_nearly_equal(actual, expected) ==
    IF actual.t = "none" /\ expected.t = "none" THEN TRUE
    ELSE IF actual.t = "none" \/ expected.t = "none" THEN FALSE
    ELSE IF actual.t = "str" /\ expected.t = "str" THEN actual.v = expected.v
    ELSE IF IsNumber(actual) /\ IsNumber(expected)
         THEN floats_nearly_equal(actual, expected)
    ELSE FALSE

(***************************************************************************)
(* DataFrames.  A series is the record of what ColumnSummary.from_series   *)
(* reads from it (dtype, n_unique and its description statistics).         *)
(***************************************************************************)
ExactFields == {"dtype", "count", "null_count", "unique_count"}
ApproxFields == {"min", "max", "mean", "std", "p25", "p50", "p75"}

\* An Int64 column [1, 2, 3].
SeriesInt ==
    [dtype |-> "Int64", count |-> 3, null_count |-> 0, unique_count |-> 3,
     min |-> Num(1), max |-> Num(3), mean |-> Num(2), std |-> Num(1),
     p25 |-> Num(1), p50 |-> Num(2), p75 |-> Num(3)]
\* A Float64 column holding a NaN: mean and std are NaN.
SeriesNaN ==
    [dtype |-> "Float64", count |-> 3, null_count |-> 0, unique_count |-> 3,
     min |-> Num(1), max |-> Num(2), mean |-> NaN, std |-> NaN,
     p25 |-> Num(1), p50 |-> Num(2), p75 |-> NaN]
\* A String column: no mean, std or percentiles.
SeriesStr ==
    [dtype |-> "String", count |-> 2, null_count |-> 0, unique_count |-> 2,
     min |-> Str(1), max |-> Str(2), mean |-> None, std |-> None,
     p25 |-> None, p50 |-> None, p75 |-> None]
\* An all-null column: min and max are undefined.
SeriesNull ==
    [dtype |-> "Null", count |-> 0, null_count |-> 2, unique_count |-> 1,
     min |-> None, max |-> None, mean |-> None, std |-> None,
     p25 |-> None, p50 |-> None, p75 |-> None]

DataFrame(height, columns, series) ==
    [kind |-> "DataFrame", height |-> height, columns |-> columns,
     series |-> series]

TA == DataFrame(3, <<"a">>, [c \in {"a"} |-> SeriesInt])
TB == DataFrame(3, <<"a">>, [c \in {"a"} |-> SeriesNaN])
TStr == DataFrame(2, <<"a", "b">>,
                  [c \in {"a", "b"} |-> IF c = "a" THEN SeriesInt ELSE SeriesStr])
TNull == DataFrame(2, <<"a">>, [c \in {"a"} |-> SeriesNull])
\* An object that is neither a pl.DataFrame nor a pl.LazyFrame.
NotAFrame == [kind |-> "object", height |-> 0, columns |-> <<>>,
              series |-> <<>>]

\* DataFrames whose columns can all be summarised.
GoodFrames == {TA, TB}
\* DataFrames callers hand to the toolkit.
FrameInputs == GoodFrames \cup {TNull}

IsFrame(x) == x.kind \in {"DataFrame", "LazyFrame"}

(***************************************************************************)
(* models.py                                                               *)
(***************************************************************************)
\* ColumnSummary.from_series raises (pydantic validation) when min or max
\* is None: the fields are typed float | str.
ColumnSummary_from_series_ok(series) ==
    series.min.t # "none" /\ series.max.t # "none"

\* ColumnSummary.from_series(series): the summary holds the series'
\* statistics and an empty description.
ColumnSummary_from_series(series) ==
    [description |-> "", dtype |-> series.dtype, count |-> series.count,
     null_count |-> series.null_count, unique_count |-> series.unique_count,
     min |-> series.min, max |-> series.max, mean |-> series.mean,
     std |-> series.std, p25 |-> series.p25, p50 |-> series.p50,
     p75 |-> series.p75]

Range(seq) == {seq[i] : i \in 1..Len(seq)}

\* The source_query of a base reference.
NoQuery == [kind |-> "none", table |-> <<>>, where |-> FALSE]

\* DataFrameReference.from_dataframe can build the reference.
from_dataframe_ok(dataframe) ==
    \A c \in Range(dataframe.columns) :
        ColumnSummary_from_series_ok(dataframe.series[c])

\* DataFrameReference.from_dataframe(name, dataframe, parent_ids,
\* source_query), with gen the value generate_dataframe_id() returns.
from_dataframe(name, dataframe, gen, parent_ids, source_query) ==
    [id |-> gen, name |-> name,
     num_rows |-> dataframe.height,
     num_columns |-> Len(dataframe.columns),
     column_names |-> dataframe.columns,
     column_summaries |->
        [c \in Range(dataframe.columns) |->
            ColumnSummary_from_series(dataframe.series[c])],
     parent_ids |-> parent_ids,
     source_query |-> source_query]

(***************************************************************************)
(* Dict helpers.  A dict keyed by id whose order is not read by the code   *)
(* modelled here (DataFrameContext._frames, the SQLContext's tables) is a  *)
(* function; the reference map, whose order the toolkit reads, is a        *)
(* sequence of references.                                                 *)
(***************************************************************************)
EmptyMap == [k \in {} |-> 0]
MapPut(f, k, v) == [x \in (DOMAIN f) \cup {k} |-> IF x = k THEN v ELSE f[x]]
MapDel(f, k) == [x \in (DOMAIN f) \ {k} |-> f[x]]

\* The keys of the reference map, in order.
RefIds(refs) == [i \in 1..Len(refs) |-> refs[i].id]
RefKeys(refs) == {refs[i].id : i \in 1..Len(refs)}
\* references[key]
RefAt(refs, key) == refs[CHOOSE i \in 1..Len(refs) : refs[i].id = key]
\* references[ref.id] = ref: an existing key keeps its position.
RefPut(refs, ref) ==
    IF ref.id \in RefKeys(refs)
    THEN [i \in 1..Len(refs) |-> IF refs[i].id = ref.id THEN ref ELSE refs[i]]
    ELSE Append(refs, ref)
\* del references[key], for a key that is present.
RefDel(refs, key) ==
    LET i == CHOOSE j \in 1..Len(refs) : refs[j].id = key
    IN  SubSeq(refs, 1, i - 1) \o SubSeq(refs, i + 1, Len(refs))

(***************************************************************************)
(* context.py: DataFrameContext.  A context is the pair of its _frames     *)
(* dict and the tables registered in its pl.SQLContext.  Each operation    *)
(* returns the context it leaves behind and the exception it raises.       *)
(***************************************************************************)
NoExc == "none"

EmptyContext == [frames |-> EmptyMap, sql |-> EmptyMap]

\* DataFrameContext.frame_ids, as a set.
FrameIds(ctx) == DOMAIN ctx.frames

\* Mutant: register replaces an id that is already bound.
Context_register_overwrite(ctx, frame_id, frame) ==
    IF ~DATAFRAME_ID_PATTERN_match(frame_id) \/ ~IsFrame(frame)
    THEN [context |-> ctx, exc |-> "ValidationError"]
    ELSE [context |-> [frames |-> MapPut(ctx.frames, frame_id, frame),
                       sql |-> MapPut(ctx.sql, frame_id, frame)],
          exc |-> NoExc]

\* DataFrameContext.register(frame_id, frame).  @validate_call checks the
\* arguments against their annotations (DataFrameId, pl.DataFrame |
\* pl.LazyFrame) before the body runs.
Context_register(ctx, frame_id, frame) ==
    IF ~DATAFRAME_ID_PATTERN_match(frame_id) \/ ~IsFrame(frame)
    THEN [context |-> ctx, exc |-> "ValidationError"]
    ELSE IF frame_id \in DOMAIN ctx.frames
    THEN [context |-> ctx, exc |-> "ValueError"]
    ELSE [context |-> [frames |-> MapPut(ctx.frames, frame_id, frame),
                       sql |-> MapPut(ctx.sql, frame_id, frame)],
          exc |-> NoExc]

\* The registration loop of register_many over the items of the mapping:
\* the first call of register that raises ends it.
RECURSIVE Context_register_each(_, _)
Context_register_each(ctx, frames) ==
    IF frames = <<>> THEN [context |-> ctx, exc |-> NoExc]
    ELSE LET r == Context_register(ctx, Head(frames).key, Head(frames).frame)
         IN  IF r.exc # NoExc THEN r
             ELSE Context_register_each(r.context, Tail(frames))

\* @validate_call on register_many: every key is a DataFrameId and every
\* value a pl.DataFrame or pl.LazyFrame.
Context_register_many_validates(frames) ==
    \A i \in 1..Len(frames) :
        DATAFRAME_ID_PATTERN_match(frames[i].key) /\ IsFrame(frames[i].frame)

\* Mutant: register_many without the check that every key is free.
Context_register_many_no_precheck(ctx, frames) ==
    IF ~Context_register_many_validates(frames)
    THEN [context |-> ctx, exc |-> "ValidationError"]
    ELSE Context_register_each(ctx, frames)

\* DataFrameContext.register_many(frames), frames being the items of the
\* mapping in order.
Context_register_many(ctx, frames) ==
    IF ~Context_register_many_validates(frames)
    THEN [context |-> ctx, exc |-> "ValidationError"]
    ELSE IF \E i \in 1..Len(frames) : frames[i].key \in DOMAIN ctx.frames
    THEN [context |-> ctx, exc |-> "ValueError"]
    ELSE Context_register_each(ctx, frames)

\* Mutant: unregister passes over an id that is not bound.
RECURSIVE Context_unregister_skip_unbound(_, _)
Context_unregister_skip_unbound(ctx, frame_ids) ==
    IF frame_ids = <<>> THEN [context |-> ctx, exc |-> NoExc]
    ELSE Context_unregister_skip_unbound(
            [frames |-> MapDel(ctx.frames, Head(frame_ids)),
             sql |-> MapDel(ctx.sql, Head(frame_ids))],
            Tail(frame_ids))

\* DataFrameContext.unregister(frame_ids): the ids are removed one at a
\* time, in order; the first unbound id raises KeyError and the ids removed
\* before it stay removed.
RECURSIVE Context_unregister(_, _)
Context_unregister(ctx, frame_ids) ==
    IF frame_ids = <<>> THEN [context |-> ctx, exc |-> NoExc]
    ELSE IF Head(frame_ids) \notin DOMAIN ctx.frames
    THEN [context |-> ctx, exc |-> "KeyError"]
    ELSE Context_unregister(
            [frames |-> MapDel(ctx.frames, Head(frame_ids)),
             sql |-> MapDel(ctx.sql, Head(frame_ids))],
            Tail(frame_ids))

\* DataFrameContext.clear()
Context_clear(ctx) == [context |-> EmptyContext, exc |-> NoExc]

(***************************************************************************)
(* registry.py: DataFrameRegistry, the pair (context, references).         *)
(***************************************************************************)
EmptyRegistry == [context |-> EmptyContext, references |-> <<>>]

\* Mutant: the reference is stored before the context accepts the frame.
Registry_register_refs_first(reg, reference, dataframe) ==
    LET r == Context_register(reg.context, reference.id, dataframe)
    IN  [context |-> r.context,
         references |-> RefPut(reg.references, reference),
         exc |-> r.exc]

\* DataFrameRegistry.register(reference, dataframe)
Registry_register(reg, reference, dataframe) ==
    LET r == Context_register(reg.context, reference.id, dataframe)
    IN  IF r.exc # NoExc
        THEN [context |-> r.context, references |-> reg.references,
              exc |-> r.exc]
        ELSE [context |-> r.context,
              references |-> RefPut(reg.references, reference),
              exc |-> NoExc]

\* Mutant: only the context forgets the id.
Registry_unregister_context_only(reg, dataframe_id) ==
    LET r == Context_unregister(reg.context, <<dataframe_id>>)
    IN  [context |-> r.context, references |-> reg.references, exc |-> r.exc]

\* DataFrameRegistry.unregister(dataframe_id): context first, then
\* del self.references[dataframe_id].
Registry_unregister(reg, dataframe_id) ==
    LET r == Context_unregister(reg.context, <<dataframe_id>>)
    IN  IF r.exc # NoExc
        THEN [context |-> r.context, references |-> reg.references,
              exc |-> r.exc]
        ELSE IF dataframe_id \notin RefKeys(reg.references)
        THEN [context |-> r.context, references |-> reg.references,
              exc |-> "KeyError"]
        ELSE [context |-> r.context,
              references |-> RefDel(reg.references, dataframe_id),
              exc |-> NoExc]

(***************************************************************************)
(* SQL.  A source_query is represented by what executing it reads: the     *)
(* table it selects from and whether a WHERE clause filters its rows; or   *)
(* it is a whitespace-only string.                                         *)
(***************************************************************************)
Select(table, where) == [kind |-> "select", table |-> table, where |-> where]
BlankQuery == [kind |-> "blank", table |-> <<>>, where |-> FALSE]

Dec(n) == IF n > 0 THEN n - 1 ELSE 0

\* The rows of a frame that a WHERE clause keeps: one row less.
Filtered(frame) ==
    [kind |-> frame.kind, height |-> Dec(frame.height),
     columns |-> frame.columns,
     series |-> [c \in DOMAIN frame.series |->
                    [frame.series[c] EXCEPT !.count = Dec(@),
                                            !.unique_count = Dec(@)]]]

\* "" and a statement that removes a table from the SQLContext.
EmptyQuery == [kind |-> "empty", table |-> <<>>, where |-> FALSE]
DropTable(table) == [kind |-> "drop", table |-> table, where |-> FALSE]

\* The messages of the two ValueErrors of execute_sql.
EmptyQueryMsg == "SQL query cannot be empty or whitespace-only"
NoFramesMsg == "no DataFrames are registered in the context"

\* The frame a statement without rows returns.
StatusFrame == DataFrame(0, <<>>, EmptyMap)

\* What SQLContext.execute does with a query that is not blank.
SQLContext_execute(ctx, query) ==
    IF query.table \notin DOMAIN ctx.sql
    THEN [exc |-> "SQLInterfaceError", frame |-> NotAFrame, msg |-> "",
          sql |-> ctx.sql]
    ELSE IF query.kind = "drop"
    THEN [exc |-> NoExc, frame |-> StatusFrame, msg |-> "",
          sql |-> MapDel(ctx.sql, query.table)]
    ELSE [exc |-> NoExc,
          frame |-> IF query.where THEN Filtered(ctx.sql[query.table])
                    ELSE ctx.sql[query.table],
          msg |-> "", sql |-> ctx.sql]

\* Mutant: the registry is looked at before the query.
Context_execute_sql_frames_first(ctx, query) ==
    IF DOMAIN ctx.frames = {}
    THEN [exc |-> "ValueError", frame |-> NotAFrame, msg |-> NoFramesMsg,
          sql |-> ctx.sql]
    ELSE IF query.kind \in {"empty", "blank"}
    THEN [exc |-> "ValueError", frame |-> NotAFrame, msg |-> EmptyQueryMsg,
          sql |-> ctx.sql]
    ELSE SQLContext_execute(ctx, query)

\* DataFrameContext.execute_sql(query, eager=True): the exception raised
\* with its message, the frame returned, and the tables the SQLContext
\* holds afterwards.  The SQLContext raises when the query names a table
\* that is not registered in it.
Context_execute_sql(ctx, query) ==
    IF query.kind \in {"empty", "blank"}
    THEN [exc |-> "ValueError", frame |-> NotAFrame, msg |-> EmptyQueryMsg,
          sql |-> ctx.sql]
    ELSE IF DOMAIN ctx.frames = {}
    THEN [exc |-> "ValueError", frame |-> NotAFrame, msg |-> NoFramesMsg,
          sql |-> ctx.sql]
    ELSE SQLContext_execute(ctx, query)

(***************************************************************************)
(* persistence.py                                                          *)
(***************************************************************************)
\* _compare_column_summaries(actual, expected): the mismatching fields.
compare_column_summaries(actual, expected) ==
    {f \in ExactFields : actual[f] # expected[f]}
    \cup {f \in ApproxFields : ~values_nearly_equal(actual[f], expected[f])}

\* Mutant: the statistics are not compared at all.
validate_dataframe_matches_reference_shape_only(dataframe, reference) ==
    IF <<dataframe.height, Len(dataframe.columns)>>
            # <<reference.num_rows, reference.num_columns>>
    THEN "ValueError"
    ELSE IF dataframe.columns # reference.column_names THEN "ValueError"
    ELSE NoExc

\* Mutant: the column names are compared before the shape.
validate_against_reference_columns_first(dataframe, reference) ==
    IF dataframe.columns # reference.column_names
    THEN [exc |-> "ValueError", msg |-> "column mismatch"]
    ELSE IF <<dataframe.height, Len(dataframe.columns)>>
            # <<reference.num_rows, reference.num_columns>>
    THEN [exc |-> "ValueError", msg |-> "shape mismatch"]
    ELSE [exc |-> NoExc, msg |-> ""]

\* The body of _validate_dataframe_matches_reference(dataframe, reference):
\* the exception raised and what its message reports.  Recomputing a
\* summary can itself fail (from_series), and so can reading a summary the
\* reference does not record.
validate_against_reference(dataframe, reference) ==
    IF <<dataframe.height, Len(dataframe.columns)>>
            # <<reference.num_rows, reference.num_columns>>
    THEN [exc |-> "ValueError", msg |-> "shape mismatch"]
    ELSE IF dataframe.columns # reference.column_names
    THEN [exc |-> "ValueError", msg |-> "column mismatch"]
    ELSE LET n == Len(dataframe.columns)
             Bad(i) ==
                LET c == dataframe.columns[i]
                IN  IF ~ColumnSummary_from_series_ok(dataframe.series[c])
                    THEN [exc |-> "ValidationError", msg |-> "validation error"]
                    ELSE IF c \notin DOMAIN reference.column_summaries
                    THEN [exc |-> "KeyError", msg |-> "key"]
                    ELSE IF compare_column_summaries(
                                ColumnSummary_from_series(dataframe.series[c]),
                                reference.column_summaries[c]) # {}
                    THEN [exc |-> "ValueError", msg |-> "statistics mismatch"]
                    ELSE [exc |-> NoExc, msg |-> ""]
             bad == {i \in 1..n : Bad(i).exc # NoExc}
         IN  IF bad = {} THEN [exc |-> NoExc, msg |-> ""]
             ELSE Bad(CHOOSE i \in bad : \A j \in bad : i <= j)

\* _validate_dataframe_matches_reference(dataframe, reference): the
\* exception raised.
validate_dataframe_matches_reference(dataframe, reference) ==
    validate_against_reference(dataframe, reference).exc

\* dict[key] = frame on a dict kept as the sequence of its items.
ItemPut(items, key, frame) ==
    IF \E i \in 1..Len(items) : items[i].key = key
    THEN [i \in 1..Len(items) |->
            IF items[i].key = key THEN [key |-> key, frame |-> frame]
            ELSE items[i]]
    ELSE Append(items, [key |-> key, frame |-> frame])

ItemKeys(items) == {items[i].key : i \in 1..Len(items)}

\* {ref.name: ref.id for ref in base_refs.values()}: the last reference
\* with a name gives the name its id.
names_to_ids_of(brefs) ==
    [n \in {brefs[i].name : i \in 1..Len(brefs)} |->
        LET hits == {i \in 1..Len(brefs) : brefs[i].name = n}
        IN  brefs[CHOOSE i \in hits : \A j \in hits : j <= i].id]

\* Mutant: every key is looked up as a name.
RECURSIVE normalize_dataframe_mapping_names_only(_, _, _)
normalize_dataframe_mapping_names_only(dataframes, names_to_ids, normalized) ==
    IF dataframes = <<>> THEN [exc |-> NoExc, normalized |-> normalized]
    ELSE LET key == Head(dataframes).key
         IN  IF key \notin DOMAIN names_to_ids
             THEN [exc |-> "ValueError", normalized |-> normalized]
             ELSE normalize_dataframe_mapping_names_only(
                    Tail(dataframes), names_to_ids,
                    ItemPut(normalized, names_to_ids[key],
                            Head(dataframes).frame))

\* _normalize_dataframe_mapping(dataframes, names_to_ids), from the items
\* left to read and the dict built so far.
RECURSIVE normalize_dataframe_mapping(_, _, _)
normalize_dataframe_mapping(dataframes, names_to_ids, normalized) ==
    IF dataframes = <<>> THEN [exc |-> NoExc, normalized |-> normalized]
    ELSE LET key == Head(dataframes).key
             ids == {names_to_ids[n] : n \in DOMAIN names_to_ids}
         IN  IF DATAFRAME_ID_PATTERN_match(key)
             THEN IF key \notin ids
                  THEN [exc |-> "ValueError", normalized |-> normalized]
                  ELSE normalize_dataframe_mapping(
                        Tail(dataframes), names_to_ids,
                        ItemPut(normalized, key, Head(dataframes).frame))
             ELSE IF key \notin DOMAIN names_to_ids
                  THEN [exc |-> "ValueError", normalized |-> normalized]
                  ELSE normalize_dataframe_mapping(
                        Tail(dataframes), names_to_ids,
                        ItemPut(normalized, names_to_ids[key],
                                Head(dataframes).frame))

\* Mutant: the reference is recorded but the frame is not bound.
register_with_reference_references_only(reg, reference, dataframe) ==
    [context |-> reg.context,
     references |-> RefPut(reg.references, reference), exc |-> NoExc]

\* _register_with_reference(reference, dataframe, context, references)
register_with_reference(reg, reference, dataframe) ==
    LET r == Context_register(reg.context, reference.id, dataframe)
    IN  IF r.exc # NoExc
        THEN [context |-> r.context, references |-> reg.references,
              exc |-> r.exc]
        ELSE [context |-> r.context,
              references |-> RefPut(reg.references, reference),
              exc |-> NoExc]

\* graph[node] = preds on the dict being built by the comprehension.
GraphPut(graph, node, preds) ==
    IF \E i \in 1..Len(graph) : graph[i].node = node
    THEN [i \in 1..Len(graph) |->
            IF graph[i].node = node THEN [node |-> node, preds |-> preds]
            ELSE graph[i]]
    ELSE Append(graph, [node |-> node, preds |-> preds])

RECURSIVE KeepIn(_, _)
KeepIn(seq, S) ==
    IF seq = <<>> THEN <<>>
    ELSE IF Head(seq) \in S THEN <<Head(seq)>> \o KeepIn(Tail(seq), S)
    ELSE KeepIn(Tail(seq), S)

\* {ref.id: [pid for pid in ref.parent_ids if pid in refs_by_id] for ref in
\* references}: parents the state does not hold are dropped from the graph.
RECURSIVE dependency_graph(_, _, _)
dependency_graph(refs, ids, graph) ==
    IF refs = <<>> THEN graph
    ELSE dependency_graph(Tail(refs), ids,
            GraphPut(graph, Head(refs).id, KeepIn(Head(refs).parent_ids, ids)))

\* graphlib.TopologicalSorter: the order in which nodes enter _node2info.
RECURSIVE AddNodes(_, _)
AddNodes(order, nodes) ==
    IF nodes = <<>> THEN order
    ELSE AddNodes(IF Head(nodes) \in Range(order) THEN order
                  ELSE Append(order, Head(nodes)),
                  Tail(nodes))

RECURSIVE NodeOrder(_, _)
NodeOrder(graph, order) ==
    IF graph = <<>> THEN order
    ELSE NodeOrder(Tail(graph),
                   AddNodes(order, <<Head(graph).node>> \o Head(graph).preds))

\* The successors list of a node: one entry per add() that names it.
RECURSIVE Successors(_, _)
Successors(graph, pred) ==
    IF graph = <<>> THEN <<>>
    ELSE LET h == Head(graph)
             k == Cardinality({j \in 1..Len(h.preds) : h.preds[j] = pred})
         IN  [i \in 1..k |-> h.node] \o Successors(Tail(graph), pred)

RECURSIVE SuccessorsOfAll(_, _)
SuccessorsOfAll(graph, nodes) ==
    IF nodes = <<>> THEN <<>>
    ELSE Successors(graph, Head(nodes)) \o SuccessorsOfAll(graph, Tail(nodes))

\* TopologicalSorter.done(*nodes): each successor loses a predecessor and
\* becomes ready when it has none left.
RECURSIVE Done(_, _, _)
Done(succs, npredecessors, ready) ==
    IF succs = <<>> THEN [npredecessors |-> npredecessors, ready |-> ready]
    ELSE LET s == Head(succs)
             n == npredecessors[s] - 1
         IN  Done(Tail(succs), [npredecessors EXCEPT ![s] = n],
                  IF n = 0 THEN Append(ready, s) ELSE ready)

RECURSIVE Drain(_, _, _, _)
Drain(graph, ready, npredecessors, out) ==
    IF ready = <<>> THEN out
    ELSE LET d == Done(SuccessorsOfAll(graph, ready), npredecessors, <<>>)
         IN  Drain(graph, d.ready, d.npredecessors, out \o ready)

\* Mutant: the nodes come out in the order they were added, unsorted.
static_order_as_added(graph) ==
    [exc |-> NoExc, order |-> NodeOrder(graph, <<>>)]

\* Mutant: the nodes that became ready come out, a cycle is not reported.
static_order_no_cycle_check(graph) ==
    LET order == NodeOrder(graph, <<>>)
        preds(n) == IF \E i \in 1..Len(graph) : graph[i].node = n
                    THEN graph[CHOOSE i \in 1..Len(graph) :
                                    graph[i].node = n].preds
                    ELSE <<>>
        npredecessors == [n \in Range(order) |-> Len(preds(n))]
        ready == KeepIn(order, {n \in Range(order) : npredecessors[n] = 0})
    IN  [exc |-> NoExc, order |-> Drain(graph, ready, npredecessors, <<>>)]

\* TopologicalSorter(graph).static_order(): CycleError when some node is
\* never ready.
static_order(graph) ==
    LET order == NodeOrder(graph, <<>>)
        preds(n) == IF \E i \in 1..Len(graph) : graph[i].node = n
                    THEN graph[CHOOSE i \in 1..Len(graph) :
                                    graph[i].node = n].preds
                    ELSE <<>>
        npredecessors == [n \in Range(order) |-> Len(preds(n))]
        ready == KeepIn(order, {n \in Range(order) : npredecessors[n] = 0})
        out == Drain(graph, ready, npredecessors, <<>>)
    IN  IF Len(out) < Len(order) THEN [exc |-> "CycleError", order |-> <<>>]
        ELSE [exc |-> NoExc, order |-> out]

\* refs_by_id[ref_id]: the last reference of the state with that id.
RefById(refs, ref_id) ==
    LET hits == {i \in 1..Len(refs) : refs[i].id = ref_id}
    IN  refs[CHOOSE i \in hits : \A j \in hits : j <= i]

\* _sort_references_by_dependency_order(references)
sort_references_by_dependency_order(refs) ==
    LET o == static_order(dependency_graph(refs, RefKeys(refs), <<>>))
    IN  IF o.exc # NoExc THEN [exc |-> "ValueError", sorted |-> <<>>]
        ELSE [exc |-> NoExc,
              sorted |-> [i \in 1..Len(o.order) |-> RefById(refs, o.order[i])]]

\* Mutant: the query is handed to execute_sql without a look at it.
execute_reconstruction_query_unchecked(reference, ctx) ==
    LET r == Context_execute_sql(ctx, reference.source_query)
    IN  IF r.exc # NoExc
        THEN [exc |-> "ValueError", frame |-> NotAFrame, ran |-> TRUE]
        ELSE [exc |-> NoExc, frame |-> r.frame, ran |-> TRUE]

\* _execute_reconstruction_query(reference, context): any exception of
\* execute_sql is re-raised as ValueError.  `ran` tells whether
\* context.execute_sql was called.
execute_reconstruction_query(reference, ctx) ==
    IF reference.source_query.kind \in {"none", "empty"}
    THEN [exc |-> "ValueError", frame |-> NotAFrame, ran |-> FALSE]
    ELSE LET r == Context_execute_sql(ctx, reference.source_query)
         IN  IF r.exc # NoExc
             THEN [exc |-> "ValueError", frame |-> NotAFrame, ran |-> TRUE]
             ELSE [exc |-> NoExc, frame |-> r.frame, ran |-> TRUE]

\* Mutant: the parents are not looked up before the query is replayed.
reconstruct_dataframe_parents_unchecked(reference, ctx, refs) ==
    IF reference.parent_ids = <<>>
    THEN [exc |-> "ValueError", frame |-> NotAFrame, ran |-> FALSE]
    ELSE execute_reconstruction_query(reference, ctx)

\* _reconstruct_dataframe(reference, context, references)
reconstruct_dataframe(reference, ctx, refs) ==
    IF reference.parent_ids = <<>>
    THEN [exc |-> "ValueError", frame |-> NotAFrame, ran |-> FALSE]
    ELSE IF \E pid \in Range(reference.parent_ids) : pid \notin RefKeys(refs)
    THEN [exc |-> "ValueError", frame |-> NotAFrame, ran |-> FALSE]
    ELSE execute_reconstruction_query(reference, ctx)

\* Mutant: the loop goes on with the remaining references after a replay
\* has failed and raises at the end.
RECURSIVE reconstruct_each_keeps_going(_, _)
reconstruct_each_keeps_going(reg, sorted) ==
    IF sorted = <<>>
    THEN [context |-> reg.context, references |-> reg.references,
          exc |-> NoExc, about |-> <<>>]
    ELSE LET ref == Head(sorted)
             q == reconstruct_dataframe(ref, reg.context, reg.references)
             v == validate_dataframe_matches_reference(q.frame, ref)
             r == register_with_reference(reg, ref, q.frame)
         IN  IF ref.id \in RefKeys(reg.references)
             THEN reconstruct_each_keeps_going(reg, Tail(sorted))
             ELSE IF q.exc # NoExc \/ v # NoExc \/ r.exc # NoExc
             THEN [reconstruct_each_keeps_going(reg, Tail(sorted))
                    EXCEPT !.exc = "ValueError", !.about = ref.name]
             ELSE reconstruct_each_keeps_going(
                    [context |-> r.context, references |-> r.references],
                    Tail(sorted))

\* Mutant: the result of the replay is registered without validation.
reconstruct_one_unvalidated(reg, ref) ==
    LET q == reconstruct_dataframe(ref, reg.context, reg.references)
        r == register_with_reference(reg, ref, q.frame)
    IN  IF ref.id \in RefKeys(reg.references)
        THEN [context |-> reg.context, references |-> reg.references,
              exc |-> NoExc, about |-> <<>>, ran |-> FALSE]
        ELSE IF q.exc # NoExc
        THEN [context |-> reg.context, references |-> reg.references,
              exc |-> q.exc, about |-> ref.name, ran |-> q.ran]
        ELSE [context |-> r.context, references |-> r.references,
              exc |-> r.exc, about |-> IF r.exc # NoExc THEN ref.id ELSE <<>>,
              ran |-> q.ran]

\* One round of the loop of _reconstruct_derivatives, for the reference
\* ref.  `about` is what the message of the exception names: the name of
\* the reference being replayed (the messages of _reconstruct_dataframe,
\* _execute_reconstruction_query and _validate_dataframe_matches_reference),
\* the id DataFrameContext.register refused, or nothing.  `ran` tells
\* whether the source_query was executed.
reconstruct_one(reg, ref) ==
    IF ref.id \in RefKeys(reg.references)
    THEN [context |-> reg.context, references |-> reg.references,
          exc |-> NoExc, about |-> <<>>, ran |-> FALSE]
    ELSE LET q == reconstruct_dataframe(ref, reg.context, reg.references)
             v == validate_dataframe_matches_reference(q.frame, ref)
             r == register_with_reference(reg, ref, q.frame)
         IN  IF q.exc # NoExc
             THEN [context |-> reg.context, references |-> reg.references,
                   exc |-> q.exc, about |-> ref.name, ran |-> q.ran]
             ELSE IF v # NoExc
             THEN [context |-> reg.context, references |-> reg.references,
                   exc |-> v,
                   about |-> IF v = "ValueError" THEN ref.name ELSE <<>>,
                   ran |-> q.ran]
             ELSE IF r.exc # NoExc
             THEN [context |-> r.context, references |-> r.references,
                   exc |-> r.exc, about |-> ref.id, ran |-> q.ran]
             ELSE [context |-> r.context, references |-> r.references,
                   exc |-> NoExc, about |-> <<>>, ran |-> q.ran]

\* The loop of _reconstruct_derivatives over the sorted references: it
\* ends at the first exception.
RECURSIVE reconstruct_each(_, _)
reconstruct_each(reg, sorted) ==
    IF sorted = <<>>
    THEN [context |-> reg.context, references |-> reg.references,
          exc |-> NoExc, about |-> <<>>]
    ELSE LET r == reconstruct_one(reg, Head(sorted))
         IN  IF r.exc # NoExc
             THEN [context |-> r.context, references |-> r.references,
                   exc |-> r.exc, about |-> r.about]
             ELSE reconstruct_each(
                    [context |-> r.context, references |-> r.references],
                    Tail(sorted))

\* "Cyclic dependency detected in references, state may be corrupted"
CyclicDependency == <<"c", "y", "c", "l", "e">>

\* _reconstruct_derivatives(state, context, references)
reconstruct_derivatives(reg, state) ==
    LET s == sort_references_by_dependency_order(state.references)
    IN  IF s.exc # NoExc
        THEN [context |-> reg.context, references |-> reg.references,
              exc |-> s.exc, about |-> CyclicDependency]
        ELSE reconstruct_each(reg, s.sorted)

IsBase(ref) == ref.parent_ids = <<>>

RECURSIVE RefPutAll(_, _)
RefPutAll(refs, more) ==
    IF more = <<>> THEN refs
    ELSE RefPutAll(RefPut(refs, Head(more)), Tail(more))

\* {ref.id: ref for ref in state.references if not ref.parent_ids}
base_refs_of(state) == RefPutAll(<<>>, SelectSeq(state.references, IsBase))

\* The validation loop of restore_from_state: the first exception raised.
RECURSIVE validate_each(_, _)
validate_each(normalized, brefs) ==
    IF normalized = <<>> THEN NoExc
    ELSE LET v == validate_dataframe_matches_reference(
                    Head(normalized).frame, RefAt(brefs, Head(normalized).key))
         IN  IF v # NoExc THEN v ELSE validate_each(Tail(normalized), brefs)

\* The registration loop of restore_from_state.
RECURSIVE register_bases(_, _, _)
register_bases(reg, normalized, brefs) ==
    IF normalized = <<>>
    THEN [context |-> reg.context, references |-> reg.references,
          exc |-> NoExc]
    ELSE LET r == register_with_reference(
                    reg, RefAt(brefs, Head(normalized).key),
                    Head(normalized).frame)
         IN  IF r.exc # NoExc THEN r
             ELSE register_bases([context |-> r.context,
                                  references |-> r.references],
                                 Tail(normalized), brefs)

\* Steps 1 to 4 of restore_from_state: the keys are normalized, every base
\* of the state must have a table and every table is validated.
check_bases(state, base_dataframes) ==
    LET brefs == base_refs_of(state)
        n == normalize_dataframe_mapping(base_dataframes,
                                         names_to_ids_of(brefs), <<>>)
    IN  IF n.exc # NoExc THEN [exc |-> n.exc, normalized |-> <<>>]
        ELSE IF RefKeys(brefs) \ ItemKeys(n.normalized) # {}
        THEN [exc |-> "ValueError", normalized |-> <<>>]
        ELSE [exc |-> validate_each(n.normalized, brefs),
              normalized |-> n.normalized]

\* restore_from_state(state, base_dataframes, context, references): the
\* context and reference map it leaves behind and the exception it raises.
restore_from_state(reg, state, base_dataframes) ==
    LET c == check_bases(state, base_dataframes)
        r == register_bases(reg, c.normalized, base_refs_of(state))
    IN  IF c.exc # NoExc
        THEN [context |-> reg.context, references |-> reg.references,
              exc |-> c.exc, about |-> <<>>]
        ELSE IF r.exc # NoExc
        THEN [context |-> r.context, references |-> r.references,
              exc |-> r.exc, about |-> <<>>]
        ELSE reconstruct_derivatives(
                [context |-> r.context, references |-> r.references], state)

\* restore_registry_from_state(state, base_dataframes): a new registry,
\* filled by restore_from_state; an exception leaves no registry behind.
restore_registry_from_state(state, base_dataframes) ==
    restore_from_state(EmptyRegistry, state, base_dataframes)

(***************************************************************************)
(* State.                                                                  *)
(*   context     the DataFrameContext of the registry under observation    *)
(*   references  its reference map (dict[DataFrameId, DataFrameReference]) *)
(*   last        the last call made: its name, its string argument, the    *)
(*               exception it raised and the value it returned             *)
(***************************************************************************)
VARIABLES context, references, last

vars == <<context, references, last>>

NoRet == [kind |-> "none"]
Call(op, arg, exc, ret) == [op |-> op, arg |-> arg, exc |-> exc, ret |-> ret]

\* The registry under observation.
Registry == [context |-> context, references |-> references]

\* DataFrameRegistry() / DataFrameToolkit(): both stores empty.
Init ==
    /\ context = EmptyContext
    /\ references = <<>>
    /\ last = Call("init", <<>>, NoExc, NoRet)

(***************************************************************************)
(* Calls on a DataFrameRegistry.                                           *)
(***************************************************************************)
\* References a caller of DataFrameRegistry.register can hold: any valid
\* DataFrameReference (its id matches the pattern; its name is free).
RegistryReferenceInputs ==
    {from_dataframe(n, TA, g, <<>>, NoQuery) :
        n \in {N_sales, N_df_sales}, g \in GeneratedIds}

RegistryRegister(reference, dataframe) ==
    LET r == Registry_register(Registry, reference, dataframe)
    IN  /\ context' = r.context
        /\ references' = r.references
        /\ last' = Call("Registry.register", reference.id, r.exc, NoRet)

RegistryUnregister(dataframe_id) ==
    LET r == Registry_unregister(Registry, dataframe_id)
    IN  /\ context' = r.context
        /\ references' = r.references
        /\ last' = Call("Registry.unregister", dataframe_id, r.exc, NoRet)

NextRegistry ==
    \/ \E reference \in RegistryReferenceInputs,
          dataframe \in GoodFrames \cup {NotAFrame} :
            RegistryRegister(reference, dataframe)
    \/ \E dataframe_id \in GeneratedIds : RegistryUnregister(dataframe_id)

\* A registry driven only through its own two methods.
SpecRegistry == Init /\ [][NextRegistry]_vars

(***************************************************************************)
(* C1: after any sequence of DataFrameRegistry.register and unregister     *)
(* calls on an initially empty registry, raising calls included, the ids   *)
(* bound in the context are exactly the keys of the reference map.         *)
(***************************************************************************)
C1_StoresCoKeyed ==
    /\ FrameIds(context) = RefKeys(references)
    /\ DOMAIN context.sql = RefKeys(references)

\* A raising call has been made on a registry that holds a dataframe.
C1_Witness ==
    /\ last.op \in {"Registry.register", "Registry.unregister"}
    /\ last.exc # NoExc
    /\ Len(references) >= 1

(***************************************************************************)
(* toolkit.py: DataFrameToolkit over its registry.  Each operation returns *)
(* the two stores it leaves behind, the exception it raises and the value  *)
(* it returns.                                                             *)
(***************************************************************************)
RefNames(refs) == [i \in 1..Len(refs) |-> refs[i].name]

\* Mutant: no name is ever found registered.
name_exists_never(refs, name) == FALSE

\* DataFrameToolkit._name_exists(name)
name_exists(refs, name) == \E i \in 1..Len(refs) : refs[i].name = name

\* DataFrameToolkit._get_reference_by_name(name): the first reference, in
\* insertion order, with that name; KeyError when there is none.
get_reference_by_name(refs, name) ==
    LET hits == {i \in 1..Len(refs) : refs[i].name = name}
    IN  IF hits = {} THEN [exc |-> "KeyError", ref |-> NoRet]
        ELSE [exc |-> NoExc,
              ref |-> refs[CHOOSE i \in hits : \A j \in hits : i <= j]]

Result(reg, exc, ret) ==
    [context |-> reg.context, references |-> reg.references,
     exc |-> exc, ret |-> ret]

\* Mutant: the duplicate-name check is missing.
register_dataframe_no_name_check(reg, name, dataframe, gen) ==
    IF DATAFRAME_ID_PATTERN_match(name)
    THEN Result(reg, "ValueError", NoRet)
    ELSE IF ~from_dataframe_ok(dataframe)
    THEN Result(reg, "ValidationError", NoRet)
    ELSE LET reference == from_dataframe(name, dataframe, gen, <<>>, NoQuery)
             r == Registry_register(reg, reference, dataframe)
         IN  Result(r, r.exc,
                    IF r.exc = NoExc
                    THEN [kind |-> "reference", value |-> reference]
                    ELSE NoRet)

\* DataFrameToolkit.register_dataframe(name, dataframe), with gen the id
\* generate_dataframe_id() returns inside from_dataframe.  A reference that
\* cannot be built raises pydantic's ValidationError.
register_dataframe(reg, name, dataframe, gen) ==
    IF DATAFRAME_ID_PATTERN_match(name)
    THEN Result(reg, "ValueError", NoRet)
    ELSE IF name_exists(reg.references, name)
    THEN Result(reg, "ValueError", NoRet)
    ELSE IF ~from_dataframe_ok(dataframe)
    THEN Result(reg, "ValidationError", NoRet)
    ELSE LET reference == from_dataframe(name, dataframe, gen, <<>>, NoQuery)
             r == Registry_register(reg, reference, dataframe)
         IN  Result(r, r.exc,
                    IF r.exc = NoExc
                    THEN [kind |-> "reference", value |-> reference]
                    ELSE NoRet)

\* The loop "for ref, df in zip(references, dataframes.values()):
\* self._registry.register(ref, df)": it stops at the first call that
\* raises, and what was registered before stays registered.
RECURSIVE register_each(_, _, _)
register_each(reg, refs, dataframes) ==
    IF refs = <<>> THEN Result(reg, NoExc, NoRet)
    ELSE LET r == Registry_register(reg, Head(refs), Head(dataframes).frame)
         IN  IF r.exc # NoExc THEN Result(r, r.exc, NoRet)
             ELSE register_each(r, Tail(refs), Tail(dataframes))

\* DataFrameToolkit.register_dataframes(dataframes): dataframes is the
\* mapping as the sequence of its (name, frame) items; gens[i] is the id
\* generated for the i-th reference.
register_dataframes(reg, dataframes, gens) ==
    LET existing_names == Range(RefNames(reg.references))
        n == Len(dataframes)
    IN  IF \E i \in 1..n :
            \/ DATAFRAME_ID_PATTERN_match(dataframes[i].name)
            \/ dataframes[i].name \in existing_names
        THEN Result(reg, "ValueError", NoRet)
        ELSE IF \E i \in 1..n : ~from_dataframe_ok(dataframes[i].frame)
        THEN Result(reg, "ValidationError", NoRet)
        ELSE LET refs == [i \in 1..n |->
                            from_dataframe(dataframes[i].name,
                                           dataframes[i].frame, gens[i],
                                           <<>>, NoQuery)]
                 r == register_each(reg, refs, dataframes)
             IN  Result(r, r.exc,
                        IF r.exc = NoExc
                        THEN [kind |-> "references", value |-> refs]
                        ELSE NoRet)

\* Mutant: the first reference in the map is removed, whatever its name.
unregister_dataframe_first(reg, name) ==
    LET found == get_reference_by_name(reg.references, name)
    IN  IF found.exc # NoExc THEN Result(reg, found.exc, NoRet)
        ELSE LET r == Registry_unregister(reg, reg.references[1].id)
             IN  Result(r, r.exc, NoRet)

\* DataFrameToolkit.unregister_dataframe(name)
unregister_dataframe(reg, name) ==
    LET found == get_reference_by_name(reg.references, name)
    IN  IF found.exc # NoExc THEN Result(reg, found.exc, NoRet)
        ELSE LET r == Registry_unregister(reg, found.ref.id)
             IN  Result(r, r.exc, NoRet)

ToolCallError(error_type, details) ==
    [kind |-> "ToolCallError", error_type |-> error_type, details |-> details]

\* Mutant: the guard against ids is missing.
get_dataframe_id_no_guard(reg, name) ==
    LET found == get_reference_by_name(reg.references, name)
    IN  IF found.exc = NoExc THEN [kind |-> "id", value |-> found.ref.id]
        ELSE ToolCallError("DataFrameNotFound",
                [available_names |-> RefNames(reg.references)])

\* DataFrameToolkit.get_dataframe_id(name): the value returned.
get_dataframe_id(reg, name) ==
    IF DATAFRAME_ID_PATTERN_match(name)
    THEN ToolCallError("InvalidArgument",
            [available_names |-> RefNames(reg.references)])
    ELSE LET found == get_reference_by_name(reg.references, name)
         IN  IF found.exc = NoExc THEN [kind |-> "id", value |-> found.ref.id]
             ELSE ToolCallError("DataFrameNotFound",
                     [available_names |-> RefNames(reg.references)])

\* Mutant: the lookup by id is missing, only names are tried.
get_dataframe_reference_name_first(reg, identifier) ==
    LET found == get_reference_by_name(reg.references, identifier)
    IN  IF found.exc = NoExc THEN [kind |-> "reference", value |-> found.ref]
        ELSE ToolCallError("DataFrameNotFound",
                [available_names |-> RefNames(reg.references),
                 available_ids |-> RefIds(reg.references)])

\* DataFrameToolkit.get_dataframe_reference(identifier): the value returned.
get_dataframe_reference(reg, identifier) ==
    IF identifier \in RefKeys(reg.references)
    THEN [kind |-> "reference", value |-> RefAt(reg.references, identifier)]
    ELSE LET found == get_reference_by_name(reg.references, identifier)
         IN  IF found.exc = NoExc
             THEN [kind |-> "reference", value |-> found.ref]
             ELSE ToolCallError("DataFrameNotFound",
                     [available_names |-> RefNames(reg.references),
                      available_ids |-> RefIds(reg.references)])

\* DataFrameToolkit.export_state(): DataFrameToolkitState(references=
\* list(self._registry.references.values())).
export_state(reg) == [references |-> reg.references]

(***************************************************************************)
(* Calls on a DataFrameToolkit.                                            *)
(***************************************************************************)
\* Frames handed to register_dataframes.
BatchFrames == {TA, TNull}

\* Mappings handed to register_dataframes: up to MaxBatch items with
\* pairwise distinct keys (a mapping has no duplicate key).
Batches ==
    {b \in UNION {[1..n -> [name : NameInputs, frame : BatchFrames]] :
                    n \in 0..MaxBatch} :
        \A i, j \in 1..Len(b) : b[i].name = b[j].name => i = j}

\* The ids generate_dataframe_id() can return for the references of a
\* batch, one per item.  A batch that is rejected before a reference is
\* built reads none of them: one choice stands for all.
GeneratedFor(dataframes) ==
    IF \E i \in 1..Len(dataframes) :
        \/ DATAFRAME_ID_PATTERN_match(dataframes[i].name)
        \/ ~from_dataframe_ok(dataframes[i].frame)
    THEN {[i \in 1..Len(dataframes) |-> MkId(1)]}
    ELSE [1..Len(dataframes) -> GeneratedIds]

RegisterDataframe(name, dataframe, gen) ==
    LET r == register_dataframe(Registry, name, dataframe, gen)
    IN  /\ context' = r.context
        /\ references' = r.references
        /\ last' = Call("register_dataframe", name, r.exc, r.ret)

RegisterDataframes(dataframes, gens) ==
    LET r == register_dataframes(Registry, dataframes, gens)
    IN  /\ context' = r.context
        /\ references' = r.references
        /\ last' = Call("register_dataframes", <<>>, r.exc, r.ret)

UnregisterDataframe(name) ==
    LET r == unregister_dataframe(Registry, name)
    IN  /\ context' = r.context
        /\ references' = r.references
        /\ last' = Call("unregister_dataframe", name, r.exc, NoRet)

GetDataframeId(name) ==
    /\ last' = Call("get_dataframe_id", name, NoExc,
                    get_dataframe_id(Registry, name))
    /\ UNCHANGED <<context, references>>

GetDataframeReference(identifier) ==
    /\ last' = Call("get_dataframe_reference", identifier, NoExc,
                    get_dataframe_reference(Registry, identifier))
    /\ UNCHANGED <<context, references>>

ExportState ==
    /\ last' = Call("export_state", <<>>, NoExc,
                    [kind |-> "state", value |-> export_state(Registry)])
    /\ UNCHANGED <<context, references>>

NextToolkit ==
    \/ \E name \in NameInputs, dataframe \in FrameInputs,
          gen \in GeneratedIds :
            RegisterDataframe(name, dataframe, gen)
    \/ \E dataframes \in Batches :
        \E gens \in GeneratedFor(dataframes) :
            RegisterDataframes(dataframes, gens)
    \/ \E name \in NameInputs : UnregisterDataframe(name)
    \/ \E name \in LookupInputs : GetDataframeId(name)
    \/ \E identifier \in LookupInputs : GetDataframeReference(identifier)
    \/ ExportState

\* A toolkit created empty and driven through its registration, lookup and
\* export methods.
Spec == Init /\ [][NextToolkit]_vars

(***************************************************************************)
(* C3: register_dataframe(name, df) raises ValueError when name matches    *)
(* the id pattern or is the name of a registered reference, and then       *)
(* leaves both stores unchanged; any other name (such as "df_sales") is    *)
(* accepted: with a dataframe that can be summarised and a generated id    *)
(* that is fresh, the call returns a new base reference with that name,    *)
(* appended to the reference map and bound, under the generated id, in     *)
(* the context.                                                            *)
(***************************************************************************)
C3_RegisterNameGuard ==
    [][\A name \in NameInputs, dataframe \in FrameInputs,
          gen \in GeneratedIds :
        (/\ last'.op = "register_dataframe"
         /\ last'.arg = name
         /\ RegisterDataframe(name, dataframe, gen)) =>
            IF \/ DATAFRAME_ID_PATTERN_match(name)
               \/ \E i \in 1..Len(references) : references[i].name = name
            THEN /\ last'.exc = "ValueError"
                 /\ UNCHANGED <<context, references>>
            ELSE (from_dataframe_ok(dataframe) /\ gen \notin FrameIds(context))
                 => /\ last'.exc = NoExc
                    /\ last'.ret.kind = "reference"
                    /\ last'.ret.value.name = name
                    /\ last'.ret.value.id = gen
                    /\ last'.ret.value.parent_ids = <<>>
                    /\ last'.ret.value.source_query = NoQuery
                    /\ gen \notin RefKeys(references)
                    /\ references' = Append(references, last'.ret.value)
                    /\ FrameIds(context') = FrameIds(context) \cup {gen}
                    /\ context'.frames[gen] = dataframe
                    /\ context'.sql[gen] = dataframe
                    /\ \A k \in FrameIds(context) :
                        context'.frames[k] = context.frames[k]
    ]_vars

\* "df_abcd1234" has just been rejected by a toolkit in which "df_sales"
\* was accepted.
C3_Witness ==
    /\ last.op = "register_dataframe"
    /\ last.arg = N_df_abcd1234
    /\ last.exc = "ValueError"
    /\ \E i \in 1..Len(references) : references[i].name = N_df_sales

(***************************************************************************)
(* C4: in every state reachable through register_dataframe,                *)
(* register_dataframes and unregister_dataframe from an empty toolkit, no  *)
(* two registered references have the same name.                           *)
(***************************************************************************)
C4_NamesUnique ==
    \A i, j \in 1..Len(references) :
        references[i].name = references[j].name => i = j

\* Registering a name that is already registered has just been refused,
\* with two references in the toolkit.
C4_Witness ==
    /\ last.op = "register_dataframe"
    /\ last.exc = "ValueError"
    /\ \E i \in 1..Len(references) : references[i].name = last.arg
    /\ Len(references) = 2

(***************************************************************************)
(* C6: register_dataframes is atomic: whenever the call raises, both       *)
(* stores equal their values before the call.                              *)
(***************************************************************************)
C6_BatchAtomic ==
    [][(last'.op = "register_dataframes" /\ last'.exc # NoExc)
        => UNCHANGED <<context, references>>]_vars

(***************************************************************************)
(* C7: unregister_dataframe(name) with a registered name removes exactly   *)
(* that reference's id from the reference map and from the context and     *)
(* leaves every other entry in place; with an unregistered name it raises  *)
(* KeyError and changes nothing.                                           *)
(***************************************************************************)
C7_UnregisterExact ==
    [][\A name \in NameInputs :
        (/\ last'.op = "unregister_dataframe"
         /\ last'.arg = name
         /\ UnregisterDataframe(name)) =>
            IF \E i \in 1..Len(references) : references[i].name = name
            THEN \E i \in 1..Len(references) :
                    /\ references[i].name = name
                    /\ last'.exc = NoExc
                    /\ references' = SubSeq(references, 1, i - 1)
                                     \o SubSeq(references, i + 1,
                                               Len(references))
                    /\ FrameIds(context') =
                            FrameIds(context) \ {references[i].id}
                    /\ DOMAIN context'.sql =
                            (DOMAIN context.sql) \ {references[i].id}
                    /\ \A k \in FrameIds(context') :
                        /\ context'.frames[k] = context.frames[k]
                        /\ context'.sql[k] = context.sql[k]
            ELSE /\ last'.exc = "KeyError"
                 /\ UNCHANGED <<context, references>>
    ]_vars

\* A registered name has just been unregistered and another reference is
\* still registered.
C7_Witness ==
    /\ last.op = "unregister_dataframe"
    /\ last.exc = NoExc
    /\ Len(references) >= 1
    /\ \A i \in 1..Len(references) : references[i].name # last.arg

(***************************************************************************)
(* C8: get_dataframe_id(name) never raises: for a registered name it       *)
(* returns that reference's id; for an input matching the id pattern, the  *)
(* id of a registered dataframe included, it returns a ToolCallError       *)
(* 'InvalidArgument'; for any other unregistered name it returns a         *)
(* ToolCallError 'DataFrameNotFound' whose details.available_names are the *)
(* names of all registered references.                                     *)
(***************************************************************************)
C8_GetIdResult ==
    last.op = "get_dataframe_id" =>
        /\ last.exc = NoExc
        /\ (\E i \in 1..Len(references) : references[i].name = last.arg)
            => /\ last.ret.kind = "id"
               /\ \E i \in 1..Len(references) :
                    /\ references[i].name = last.arg
                    /\ references[i].id = last.ret.value
        /\ DATAFRAME_ID_PATTERN_match(last.arg)
            => /\ last.ret.kind = "ToolCallError"
               /\ last.ret.error_type = "InvalidArgument"
        /\ (/\ ~DATAFRAME_ID_PATTERN_match(last.arg)
            /\ \A i \in 1..Len(references) : references[i].name # last.arg)
            => /\ last.ret.kind = "ToolCallError"
               /\ last.ret.error_type = "DataFrameNotFound"
               /\ last.ret.details.available_names = RefNames(references)

\* The id of a registered dataframe has been passed as the name.
C8_Witness ==
    /\ last.op = "get_dataframe_id"
    /\ last.arg \in RefKeys(references)
    /\ last.ret.kind = "ToolCallError"

(***************************************************************************)
(* C9: get_dataframe_reference(identifier) never raises: it returns the    *)
(* reference keyed by identifier if identifier is a registered id,         *)
(* otherwise the reference whose name is identifier, otherwise a           *)
(* ToolCallError 'DataFrameNotFound' whose details.available_names and     *)
(* details.available_ids are the names and ids of all registered           *)
(* references.                                                             *)
(***************************************************************************)
C9_GetReferenceResult ==
    last.op = "get_dataframe_reference" =>
        /\ last.exc = NoExc
        /\ IF \E i \in 1..Len(references) : references[i].id = last.arg
           THEN /\ last.ret.kind = "reference"
                /\ last.ret.value.id = last.arg
                /\ \E i \in 1..Len(references) : references[i] = last.ret.value
           ELSE IF \E i \in 1..Len(references) : references[i].name = last.arg
           THEN /\ last.ret.kind = "reference"
                /\ last.ret.value.name = last.arg
                /\ \E i \in 1..Len(references) : references[i] = last.ret.value
           ELSE /\ last.ret.kind = "ToolCallError"
                /\ last.ret.error_type = "DataFrameNotFound"
                /\ last.ret.details.available_names = RefNames(references)
                /\ last.ret.details.available_ids = RefIds(references)

\* A reference has been fetched by its id while another is registered.
C9_Witness ==
    /\ last.op = "get_dataframe_reference"
    /\ last.arg \in RefKeys(references)
    /\ last.ret.kind = "reference"
    /\ Len(references) = 2

(***************************************************************************)
(* A holder of a DataFrameRegistry: besides the registry's two methods it  *)
(* can call the methods of the public `context` attribute.                 *)
(***************************************************************************)
ContextRegister(frame_id, frame) ==
    LET r == Context_register(context, frame_id, frame)
    IN  /\ context' = r.context
        /\ last' = Call("Context.register", frame_id, r.exc, NoRet)
        /\ UNCHANGED references

ContextUnregister(frame_ids) ==
    LET r == Context_unregister(context, frame_ids)
    IN  /\ context' = r.context
        /\ last' = Call("Context.unregister", frame_ids, r.exc, NoRet)
        /\ UNCHANGED references

ContextClear ==
    /\ context' = Context_clear(context).context
    /\ last' = Call("Context.clear", <<>>, NoExc, NoRet)
    /\ UNCHANGED references

\* The id collections handed to DataFrameContext.unregister.
UnregisterInputs ==
    UNION {[1..n -> GeneratedIds] : n \in 1..MaxBatch}

NextHolder ==
    \/ NextRegistry
    \/ \E frame_id \in GeneratedIds, frame \in GoodFrames :
            ContextRegister(frame_id, frame)
    \/ \E frame_ids \in UnregisterInputs : ContextUnregister(frame_ids)
    \/ ContextClear

SpecHolder == Init /\ [][NextHolder]_vars

(***************************************************************************)
(* C2: no operation available to a holder of a DataFrameRegistry changes   *)
(* the set of ids bound in the context without changing the keys of the    *)
(* reference map in the same way, or the reverse: every step adds the same *)
(* ids to both and removes the same ids from both.                         *)
(***************************************************************************)
C2_PairedMutations ==
    [][/\ FrameIds(context') \ FrameIds(context)
            = RefKeys(references') \ RefKeys(references)
       /\ FrameIds(context) \ FrameIds(context')
            = RefKeys(references) \ RefKeys(references')]_vars

(***************************************************************************)
(* Restoring a toolkit from a state.                                       *)
(***************************************************************************)
\* The largest base_dataframes mapping handed to from_state.
MaxBases == 2

N_other == <<"o", "t", "h", "e", "r">>

\* Keys a caller can use in base_dataframes: the names and ids the state
\* records, a name it does not record and an id-shaped key it does not
\* record.
BaseKeysFor(state) ==
    {state.references[i].name : i \in 1..Len(state.references)}
    \cup RefKeys(state.references)
    \cup {N_other, N_df_abcd1234}

\* The base_dataframes mappings: items with pairwise distinct keys.
BaseMappings(state) ==
    {m \in UNION {[1..n -> [key : BaseKeysFor(state), frame : GoodFrames]] :
                    n \in 0..MaxBases} :
        \A i, j \in 1..Len(m) : m[i].key = m[j].key => i = j}

\* DataFrameToolkit.from_state(state, base_dataframes): the registry of
\* the toolkit it returns, or the exception it raises.
from_state(state, base_dataframes) ==
    restore_registry_from_state(state, base_dataframes)

\* base_dataframes holds, for every reference, the table bound to its id,
\* under the reference's name or id, and nothing else.
SameBases(reg, base_dataframes) ==
    /\ \A i \in 1..Len(base_dataframes) :
        \E j \in 1..Len(reg.references) :
            /\ base_dataframes[i].key \in {reg.references[j].name,
                                          reg.references[j].id}
            /\ base_dataframes[i].frame
                = reg.context.frames[reg.references[j].id]
    /\ \A j \in 1..Len(reg.references) :
        \E i \in 1..Len(base_dataframes) :
            base_dataframes[i].key \in {reg.references[j].name,
                                       reg.references[j].id}

\* from_state is a classmethod: on success the toolkit under observation
\* is the one it returns; when it raises, the caller keeps the toolkit it
\* had.  The call is recorded with how its arguments relate to the toolkit
\* at hand: whether the state is that toolkit's export and whether the
\* mapping holds that toolkit's tables.
FromState(state, base_dataframes) ==
    LET r == from_state(state, base_dataframes)
    IN  /\ context' = IF r.exc = NoExc THEN r.context ELSE context
        /\ references' = IF r.exc = NoExc THEN r.references ELSE references
        /\ last' = Call("from_state",
                        [exported |-> state = export_state(Registry),
                         same_bases |-> SameBases(Registry, base_dataframes)],
                        r.exc, NoRet)

\* from_state(toolkit.export_state(), base_dataframes)
RoundTrip(base_dataframes) ==
    FromState(export_state(Registry), base_dataframes)

NextRoundTrip ==
    \/ \E name \in NameInputs, dataframe \in FrameInputs,
          gen \in GeneratedIds :
            RegisterDataframe(name, dataframe, gen)
    \/ \E name \in NameInputs : UnregisterDataframe(name)
    \/ \E base_dataframes \in BaseMappings(export_state(Registry)) :
            RoundTrip(base_dataframes)

\* Toolkits built by registration and by restoring exported states.
SpecRoundTrip == Init /\ [][NextRoundTrip]_vars

\* States a caller can build or deserialize without a toolkit: any list of
\* valid DataFrameReference objects.
IdNamedState ==
    [references |->
        <<from_dataframe(N_df_abcd1234, TA, MkId(1), <<>>, NoQuery)>>]
DerivedState ==
    [references |->
        <<from_dataframe(N_sales, TA, MkId(1), <<>>, NoQuery),
          from_dataframe(N_df_sales, Filtered(TA), MkId(2), <<MkId(1)>>,
                         Select(MkId(1), TRUE))>>]
HandBuiltStates == {IdNamedState, DerivedState}

NextState ==
    \/ NextRoundTrip
    \/ \E state \in HandBuiltStates :
        \E base_dataframes \in BaseMappings(state) :
            FromState(state, base_dataframes)

\* Toolkits built by registration and by restoring any state.
SpecState == Init /\ [][NextState]_vars

(***************************************************************************)
(* C5: in every toolkit state reachable through register_dataframe,        *)
(* register_dataframes, unregister_dataframe and from_state, no registered *)
(* reference's display name matches the DataFrameId pattern.               *)
(***************************************************************************)
C5_NoIdShapedName ==
    \A i \in 1..Len(references) :
        ~DATAFRAME_ID_PATTERN_match(references[i].name)

(***************************************************************************)
(* C10: round trip.  For a toolkit holding only base tables,               *)
(* from_state(export_state(), the same base tables keyed by name or by     *)
(* id) succeeds, and the toolkit it yields has references with the same    *)
(* ids, names and column summaries, every id bound in the new context.     *)
(***************************************************************************)
IdentityOf(refs) ==
    {[id |-> refs[i].id, name |-> refs[i].name,
      column_summaries |-> refs[i].column_summaries] : i \in 1..Len(refs)}

ID1 == MkId(1)
ID2 == MkId(2)
ID3 == MkId(3)

\* A base "sales" and, listed before their parents, a derivative of it and
\* a derivative of that derivative.
ChainState ==
    [references |->
        <<from_dataframe(N_other, Filtered(TA), ID3, <<ID2>>,
                         Select(ID2, FALSE)),
          from_dataframe(N_df_sales, Filtered(TA), ID2, <<ID1>>,
                         Select(ID1, TRUE)),
          from_dataframe(N_sales, TA, ID1, <<>>, NoQuery)>>]
\* Two derivatives that are each other's parent.
CycleState ==
    [references |->
        <<from_dataframe(N_sales, TA, ID1, <<>>, NoQuery),
          from_dataframe(N_df_sales, TA, ID2, <<ID1, ID3>>,
                         Select(ID1, FALSE)),
          from_dataframe(N_other, TA, ID3, <<ID2>>, Select(ID2, FALSE))>>]
\* A derivative that lists itself as its parent.
SelfLoopState ==
    [references |->
        <<from_dataframe(N_sales, TA, ID1, <<>>, NoQuery),
          from_dataframe(N_df_sales, TA, ID2, <<ID2>>, Select(ID1, FALSE))>>]
\* A derivative, listed first, whose parent is not in the state.
UnknownParentState ==
    [references |->
        <<from_dataframe(N_df_sales, TA, ID2, <<ID3>>, Select(ID1, FALSE)),
          from_dataframe(N_sales, TA, ID1, <<>>, NoQuery)>>]
\* A derivative whose query reads a table that does not exist, followed by
\* a derivative of it.
BadQueryState ==
    [references |->
        <<from_dataframe(N_sales, TA, ID1, <<>>, NoQuery),
          from_dataframe(N_df_sales, TA, ID2, <<ID1>>,
                         Select(N_df_abcd1234, FALSE)),
          from_dataframe(N_other, TA, ID3, <<ID2>>, Select(ID2, FALSE))>>]
\* A good derivative followed by a derivative with parents but no query.
NoQueryState ==
    [references |->
        <<from_dataframe(N_sales, TA, ID1, <<>>, NoQuery),
          from_dataframe(N_df_sales, TA, ID2, <<ID1>>, Select(ID1, FALSE)),
          from_dataframe(N_other, TA, ID3, <<ID2>>, NoQuery)>>]
\* A derivative whose recorded summary is not that of its query's result,
\* and a good derivative listed after it.
MismatchState ==
    [references |->
        <<from_dataframe(N_sales, TA, ID1, <<>>, NoQuery),
          from_dataframe(N_df_sales, TA, ID2, <<ID1>>, Select(ID1, TRUE)),
          from_dataframe(N_other, TA, ID3, <<ID1>>, Select(ID1, FALSE))>>]
\* A reference without parents that carries a source_query.
QueriedBaseState ==
    [references |->
        <<from_dataframe(N_sales, TA, ID1, <<>>, Select(ID1, FALSE))>>]
\* Two bases with different tables.
TwoBaseState ==
    [references |->
        <<from_dataframe(N_sales, TA, ID1, <<>>, NoQuery),
          from_dataframe(N_df_sales, TB, ID2, <<>>, NoQuery)>>]

\* A derivative of two derivatives of one base.
DiamondState ==
    [references |->
        <<from_dataframe(N_sales, TA, ID1, <<>>, NoQuery),
          from_dataframe(N_df_sales, Filtered(TA), ID2, <<ID1>>,
                         Select(ID1, TRUE)),
          from_dataframe(N_other, TA, ID3, <<ID1>>, Select(ID1, FALSE)),
          from_dataframe(N_df_abcd1234, Filtered(TA), MkId(4), <<ID2, ID3>>,
                         Select(ID3, TRUE))>>]
\* DataFrameToolkitState(references=[])
EmptyState == [references |-> <<>>]

RestoreStates ==
    {EmptyState, IdNamedState, DerivedState, ChainState, DiamondState,
     CycleState, SelfLoopState, UnknownParentState, BadQueryState,
     NoQueryState, MismatchState, QueriedBaseState, TwoBaseState}

BasesOf(state) == {r \in Range(state.references) : IsBase(r)}

\* Keys a caller can use for the bases of a state: their names and ids, a
\* name and an id-shaped key that no base has.
RestoreKeysFor(state) ==
    {b.name : b \in BasesOf(state)} \cup {b.id : b \in BasesOf(state)}
    \cup {N_other, N_df_abcd1234}

Min(a, b) == IF a <= b THEN a ELSE b

\* The base_dataframes mappings for a state: pairwise distinct keys, at
\* most one item more than the state has bases.
RestoreMappings(state) ==
    {m \in UNION {[1..n -> [key : RestoreKeysFor(state), frame : GoodFrames]] :
                    n \in 0..Min(MaxBases, Cardinality(BasesOf(state)) + 1)} :
        \A i, j \in 1..Len(m) : m[i].key = m[j].key => i = j}

\* The reference records exactly this frame.
Describes(ref, frame) ==
    /\ ref.num_rows = frame.height
    /\ ref.column_names = frame.columns
    /\ from_dataframe_ok(frame)
    /\ ref.column_summaries =
        [c \in Range(frame.columns) |-> ColumnSummary_from_series(frame.series[c])]

\* How the arguments of a call relate to each other.
UnknownKey(state, m) ==
    \E i \in 1..Len(m) : \A b \in BasesOf(state) : m[i].key \notin {b.name, b.id}
MissingBase(state, m) ==
    \E b \in BasesOf(state) : \A i \in 1..Len(m) : m[i].key \notin {b.name, b.id}
InvalidBase(state, m) ==
    \E i \in 1..Len(m) : \E b \in BasesOf(state) :
        m[i].key \in {b.name, b.id} /\ ~Describes(b, m[i].frame)
DuplicateTarget(state, m) ==
    \E i, j \in 1..Len(m) : \E b \in BasesOf(state) :
        m[i].key = b.name /\ m[j].key = b.id /\ i # j

\* restore_from_state(state, base_dataframes, context, references) on the
\* empty context and reference map at hand.  The call is recorded with its
\* state and with how base_dataframes relates to the state's bases.
RestoreFromState(state, base_dataframes) ==
    /\ references = <<>>
    /\ FrameIds(context) = {}
    /\ LET r == restore_from_state(Registry, state, base_dataframes)
       IN  /\ context' = r.context
           /\ references' = r.references
           /\ last' = Call("restore_from_state",
                           [state |-> state,
                            unknown_key |-> UnknownKey(state, base_dataframes),
                            missing_base |-> MissingBase(state, base_dataframes),
                            invalid_base |-> InvalidBase(state, base_dataframes),
                            duplicate_target |->
                                DuplicateTarget(state, base_dataframes)],
                           r.exc, [kind |-> "message", about |-> r.about])

\* context = DataFrameContext(); references = {}
Fresh ==
    /\ references # <<>> \/ FrameIds(context) # {}
    /\ context' = EmptyContext
    /\ references' = <<>>
    /\ last' = Call("fresh", <<>>, NoExc, NoRet)

NextRestore ==
    \/ \E state \in RestoreStates :
        \E base_dataframes \in RestoreMappings(state) :
            RestoreFromState(state, base_dataframes)
    \/ Fresh

SpecRestore == Init /\ [][NextRestore]_vars

\* pydantic's ValidationError is a ValueError.
IsValueError(exc) == exc \in {"ValueError", "ValidationError"}

(***************************************************************************)
(* C11: when restore_from_state returns normally on an initially empty     *)
(* context and reference map, the ids registered in both stores are the    *)
(* ids of state.references, bases and derivatives, and each id maps to the *)
(* reference the state records under that id.                              *)
(***************************************************************************)
C11_RestoreRegistersState ==
    (last.op = "restore_from_state" /\ last.exc = NoExc) =>
        LET refs == last.arg.state.references
        IN  /\ RefKeys(references) = RefKeys(refs)
            /\ FrameIds(context) = RefKeys(refs)
            /\ DOMAIN context.sql = RefKeys(refs)
            /\ Len(references) = Len(refs)
            /\ \A i \in 1..Len(refs) :
                RefAt(references, refs[i].id) = refs[i]

\* A state listing two derivatives before their base has been restored.
C11_Witness ==
    /\ last.op = "restore_from_state"
    /\ last.exc = NoExc
    /\ last.arg.state = ChainState
    /\ Len(references) = 3

(***************************************************************************)
(* C12: the base phase of restore is all-or-nothing: if a supplied key     *)
(* matches neither a base name nor a base id, or some base reference has   *)
(* no supplied table, or a supplied base fails validation against its      *)
(* reference, restore_from_state raises ValueError and nothing has been    *)
(* registered in the context or the reference map.                         *)
(***************************************************************************)
C12_BasePhaseAtomic ==
    (/\ last.op = "restore_from_state"
     /\ \/ last.arg.unknown_key
        \/ last.arg.missing_base
        \/ last.arg.invalid_base)
    => /\ IsValueError(last.exc)
       /\ references = <<>>
       /\ FrameIds(context) = {}
       /\ DOMAIN context.sql = {}

(***************************************************************************)
(* C13: supplying the same base twice, once under its name and once under  *)
(* its id, fails with ValueError: neither of the two tables is silently    *)
(* kept.                                                                   *)
(***************************************************************************)
C13_DuplicateTargetGuard ==
    (last.op = "restore_from_state" /\ last.arg.duplicate_target)
        => IsValueError(last.exc)

(***************************************************************************)
(* _sort_references_by_dependency_order applied to lists of references.    *)
(* The sort reads the id and the parent_ids of a reference and nothing     *)
(* else: the references of the lists carry these two fields.               *)
(***************************************************************************)
\* parent_ids lists: up to two distinct ids, in either order.
ParentLists ==
    {<<>>} \cup {<<p>> : p \in GeneratedIds}
    \cup {pq \in GeneratedIds \X GeneratedIds : pq[1] # pq[2]}

\* The caller's list starts empty.
InitSort ==
    /\ context = EmptyContext
    /\ references = <<>>
    /\ last = Call("references", <<>>, NoExc, NoRet)

\* The caller appends a reference to the list.  The ids of a list are
\* pairwise distinct and the sort treats them as opaque keys: the i-th
\* reference carries the i-th id.  A parent can be an earlier or a later
\* reference, the reference itself, or an id the list does not hold.
AppendReference(parent_ids) ==
    /\ last.op = "references"
    /\ Len(last.arg) < NumIds
    /\ last' = Call("references",
                    Append(last.arg, [id |-> MkId(Len(last.arg) + 1),
                                      parent_ids |-> parent_ids]),
                    NoExc, NoRet)
    /\ UNCHANGED <<context, references>>

SortReferences ==
    /\ last.op = "references"
    /\ LET r == sort_references_by_dependency_order(last.arg)
       IN  last' = Call("_sort_references_by_dependency_order", last.arg,
                        r.exc, [kind |-> "sorted", value |-> r.sorted])
    /\ UNCHANGED <<context, references>>

NextSort ==
    \/ \E parent_ids \in ParentLists : AppendReference(parent_ids)
    \/ SortReferences

SpecSort == InitSort /\ [][NextSort]_vars

\* The parent_ids graph of a list has no cycle: no non-empty set of its
\* references in which every member has a parent in the set.
Acyclic(refs) ==
    \A S \in SUBSET RefKeys(refs) :
        S # {} => \E i \in 1..Len(refs) :
                    /\ refs[i].id \in S
                    /\ \A p \in Range(refs[i].parent_ids) : p \notin S

\* Some reference lists a parent the list does not hold.
HasUnknownParent(refs) ==
    \E i \in 1..Len(refs) :
        \E p \in Range(refs[i].parent_ids) : p \notin RefKeys(refs)

C16_UnknownParentRaises ==
    (/\ last.op = "_sort_references_by_dependency_order"
     /\ HasUnknownParent(last.arg))
    => last.exc = "ValueError"

\* The base phase of a recorded restore call had nothing to reject.
BasePhasePasses(arg) ==
    ~arg.unknown_key /\ ~arg.missing_base /\ ~arg.invalid_base

\* The ids of the references that lie on a cycle of the parent_ids graph or
\* descend from one: the members of the sets in which every member has a
\* parent in the set.
CycleIds(refs) ==
    UNION {S \in SUBSET RefKeys(refs) :
            \A id \in S : \E i \in 1..Len(refs) :
                /\ refs[i].id = id
                /\ \E p \in Range(refs[i].parent_ids) : p \in S}

(***************************************************************************)
(* C15: when the parent_ids graph of the state's references contains a     *)
(* cycle (a reference that is its own parent included), reconstruction     *)
(* raises ValueError reporting a cyclic dependency and none of the         *)
(* references on the cycle is registered in the context or the reference   *)
(* map.                                                                    *)
(***************************************************************************)
C15_CycleRaises ==
    (/\ last.op = "restore_from_state"
     /\ BasePhasePasses(last.arg)
     /\ ~Acyclic(last.arg.state.references))
    => /\ last.exc = "ValueError"
       /\ last.ret.about = CyclicDependency
       /\ RefKeys(references) \cap CycleIds(last.arg.state.references) = {}
       /\ FrameIds(context) \cap CycleIds(last.arg.state.references) = {}
       /\ DOMAIN context.sql \cap CycleIds(last.arg.state.references) = {}

\* Restoring two derivatives that are each other's parent has failed on the
\* cycle, after the base was registered.
C15_Witness ==
    /\ last.op = "restore_from_state"
    /\ last.arg.state = CycleState
    /\ last.exc = "ValueError"
    /\ last.ret.about = CyclicDependency
    /\ RefKeys(references) = {ID1}

\* An id is registered in the reference map and in the context, or in
\* neither.
InBothStores(id) ==
    /\ id \in RefKeys(references)
    /\ id \in FrameIds(context)
    /\ id \in DOMAIN context.sql
InNeitherStore(id) ==
    /\ id \notin RefKeys(references)
    /\ id \notin FrameIds(context)
    /\ id \notin DOMAIN context.sql

\* The states whose bases restore and whose replay fails: a query on a
\* table that does not exist, a result that is not the recorded one, a
\* parent that is not in the state, a derivative without source_query.
ReplayFailureStates ==
    {BadQueryState, MismatchState, UnknownParentState, NoQueryState}

(***************************************************************************)
(* C17: when the replay of a derivative fails during restore (its query    *)
(* fails to execute, its result fails validation, a parent is missing, or  *)
(* it has no source_query), restore raises ValueError naming that          *)
(* derivative; all bases and every derivative earlier in the dependency    *)
(* order are then registered in both stores, and the failing derivative    *)
(* and every derivative after it are registered in neither.                *)
(***************************************************************************)
C17_ReplayFailurePartial ==
    (/\ last.op = "restore_from_state"
     /\ BasePhasePasses(last.arg)
     /\ Acyclic(last.arg.state.references)
     /\ \E i \in 1..Len(last.arg.state.references) :
            ~IsBase(last.arg.state.references[i]))
    => LET refs == last.arg.state.references
           sorted == sort_references_by_dependency_order(refs).sorted
       IN  /\ last.arg.state \in ReplayFailureStates => last.exc # NoExc
           /\ last.exc # NoExc =>
                /\ last.exc = "ValueError"
                /\ \E k \in 1..Len(sorted) :
                    /\ ~IsBase(sorted[k])
                    /\ last.ret.about = sorted[k].name
                    /\ \A j \in 1..Len(sorted) :
                        IF IsBase(sorted[j]) \/ j < k
                        THEN InBothStores(sorted[j].id)
                        ELSE InNeitherStore(sorted[j].id)

\* A restore has failed on its second derivative: the base and the first
\* derivative are registered, the second derivative is not.
C17_Witness ==
    /\ last.op = "restore_from_state"
    /\ last.arg.state = NoQueryState
    /\ last.exc = "ValueError"
    /\ last.ret.about = N_other
    /\ RefKeys(references) = {ID1, ID2}

(***************************************************************************)
(* C18: every DataFrameReference that is constructed, registered or        *)
(* restored has an empty parent_ids exactly when its source_query is None: *)
(* a reference is a base without provenance or a derivative with parents   *)
(* and a query.                                                            *)
(***************************************************************************)
C18_ParentsIffQuery ==
    \A i \in 1..Len(references) :
        (references[i].parent_ids = <<>>)
            <=> (references[i].source_query = NoQuery)

(***************************************************************************)
(* A DataFrameContext on its own, driven through register, register_many,  *)
(* unregister and clear.                                                   *)
(***************************************************************************)
\* The members of a set of indices, in increasing order.
RECURSIVE Ascending(_)
Ascending(K) ==
    IF K = {} THEN <<>>
    ELSE LET k == CHOOSE x \in K : \A y \in K : x <= y
         IN  <<k>> \o Ascending(K \ {k})

\* The mappings handed to register_many: up to MaxBatch items with pairwise
\* distinct keys, listed in the order of their ids; a value can be an
\* object that is not a frame.
RegisterManyInputs ==
    UNION {{[i \in 1..Cardinality(K) |->
                [key |-> MkId(Ascending(K)[i]), frame |-> f[Ascending(K)[i]]]] :
                f \in [K -> {TB, NotAFrame}]} :
            K \in {S \in SUBSET (1..NumIds) : Cardinality(S) <= MaxBatch}}

\* The call is recorded with the keys of the mapping, in order, and with
\* whether every value is a frame.
ContextRegisterMany(frames) ==
    LET r == Context_register_many(context, frames)
    IN  /\ context' = r.context
        /\ last' = Call("Context.register_many",
                        [keys |-> [i \in 1..Len(frames) |-> frames[i].key],
                         typed |-> \A i \in 1..Len(frames) :
                                        IsFrame(frames[i].frame)],
                        r.exc, NoRet)
        /\ UNCHANGED references

\* The queries handed to execute_sql: "", "  ", a SELECT from a table with
\* or without a WHERE clause, a DROP TABLE.
QueryInputs ==
    {EmptyQuery, BlankQuery}
    \cup {Select(t, w) : t \in GeneratedIds, w \in BOOLEAN}
    \cup {DropTable(t) : t \in GeneratedIds}

ContextExecuteSql(query) ==
    LET r == Context_execute_sql(context, query)
    IN  /\ context' = [frames |-> context.frames, sql |-> r.sql]
        /\ last' = Call("Context.execute_sql", query, r.exc,
                        [kind |-> "frame", value |-> r.frame, msg |-> r.msg])
        /\ UNCHANGED references

NextContext ==
    \/ \E frame_id \in GeneratedIds, frame \in GoodFrames \cup {NotAFrame} :
            ContextRegister(frame_id, frame)
    \/ \E frames \in RegisterManyInputs : ContextRegisterMany(frames)
    \/ \E frame_ids \in UnregisterInputs : ContextUnregister(frame_ids)
    \/ ContextClear

SpecContext == Init /\ [][NextContext]_vars

\* A DataFrameContext on which queries are executed.
NextQuery ==
    \/ \E frame_id \in GeneratedIds, frame \in GoodFrames :
            ContextRegister(frame_id, frame)
    \/ \E query \in QueryInputs : ContextExecuteSql(query)
    \/ ContextClear

SpecQuery == Init /\ [][NextQuery]_vars

(***************************************************************************)
(* C19: DataFrameContext.register(id, frame) raises ValueError when id is  *)
(* already bound and TypeError when frame is not a DataFrame or LazyFrame, *)
(* and in both cases leaves the bound ids and the frame of each unchanged; *)
(* otherwise it succeeds and exactly id is added, bound to frame.          *)
(***************************************************************************)
C19_RegisterErrors ==
    [][\A frame_id \in GeneratedIds, frame \in GoodFrames \cup {NotAFrame} :
        (last'.op = "Context.register" /\ ContextRegister(frame_id, frame))
        => IF ~IsFrame(frame)
           THEN last'.exc = "TypeError" /\ context' = context
           ELSE IF frame_id \in FrameIds(context)
           THEN last'.exc = "ValueError" /\ context' = context
           ELSE /\ last'.exc = NoExc
                /\ context'.frames = MapPut(context.frames, frame_id, frame)
                /\ context'.sql = MapPut(context.sql, frame_id, frame)]_vars

(***************************************************************************)
(* C20: DataFrameContext.register_many(frames) is all-or-nothing: if any   *)
(* key of frames is already bound it raises ValueError and no key of       *)
(* frames is newly bound; otherwise every key of frames becomes bound; in  *)
(* both cases the ids bound before keep their frames.                      *)
(***************************************************************************)
C20_RegisterManyAtomic ==
    [][(last'.op = "Context.register_many" /\ last'.arg.typed)
        => LET keys == Range(last'.arg.keys)
           IN  /\ \A id \in FrameIds(context) :
                    /\ id \in FrameIds(context')
                    /\ context'.frames[id] = context.frames[id]
                    /\ id \in DOMAIN context'.sql
                    /\ context'.sql[id] = context.sql[id]
               /\ IF keys \cap FrameIds(context) # {}
                  THEN /\ last'.exc = "ValueError"
                       /\ FrameIds(context') = FrameIds(context)
                       /\ DOMAIN context'.sql = DOMAIN context.sql
                  ELSE /\ last'.exc = NoExc
                       /\ FrameIds(context') = FrameIds(context) \cup keys
                       /\ DOMAIN context'.sql = DOMAIN context.sql \cup keys]_vars

\* register_many has refused a mapping with a bound key and a free key:
\* the free key is still unbound.
C20_Witness ==
    /\ last.op = "Context.register_many"
    /\ last.arg.typed
    /\ last.exc = "ValueError"
    /\ \E k \in Range(last.arg.keys) : k \in FrameIds(context)
    /\ \E k \in Range(last.arg.keys) : k \notin FrameIds(context)

(***************************************************************************)
(* C21 as stated: DataFrameContext.unregister(ids) raises KeyError if any  *)
(* of the given ids is not bound; when all are bound it returns normally,  *)
(* having removed exactly those ids and left the others bound.             *)
(***************************************************************************)
C21_UnregisterAllBound ==
    [][last'.op = "Context.unregister"
        => LET ids == Range(last'.arg)
           IN  IF ids \subseteq FrameIds(context)
               THEN /\ last'.exc = NoExc
                    /\ FrameIds(context') = FrameIds(context) \ ids
               ELSE last'.exc = "KeyError"]_vars

\* The ids of a call are pairwise distinct.
Distinct(frame_ids) ==
    \A i, j \in 1..Len(frame_ids) : frame_ids[i] = frame_ids[j] => i = j

(***************************************************************************)
(* C21, amended: DataFrameContext.unregister(ids) raises KeyError if any   *)
(* of the given ids is not bound or is given more than once; when all are  *)
(* bound and pairwise distinct it returns normally, having removed exactly *)
(* those ids.  In every case an id that was not given stays bound to the   *)
(* same frame and no id becomes bound.                                     *)
(***************************************************************************)
C21_UnregisterErrors ==
    [][last'.op = "Context.unregister"
        => LET frame_ids == last'.arg
               ids == Range(frame_ids)
           IN  /\ IF ids \subseteq FrameIds(context) /\ Distinct(frame_ids)
                  THEN /\ last'.exc = NoExc
                       /\ FrameIds(context') = FrameIds(context) \ ids
                       /\ DOMAIN context'.sql = DOMAIN context.sql \ ids
                  ELSE last'.exc = "KeyError"
               /\ FrameIds(context) \ ids \subseteq FrameIds(context')
               /\ FrameIds(context') \subseteq FrameIds(context)
               /\ \A id \in FrameIds(context') :
                    /\ context'.frames[id] = context.frames[id]
                    /\ context'.sql[id] = context.sql[id]]_vars

\* Two bound ids have been unregistered together and another id is still
\* bound.
C21_Witness ==
    /\ last.op = "Context.unregister"
    /\ last.exc = NoExc
    /\ Len(last.arg) = 2
    /\ last.arg[1] # last.arg[2]
    /\ FrameIds(context) # {}

(***************************************************************************)
(* C22: DataFrameContext.execute_sql raises ValueError for an empty or     *)
(* whitespace-only query and when no frame is bound, the empty-query check *)
(* coming first; whether it raises or returns, the set of bound ids and    *)
(* the frame of each are unchanged.                                        *)
(***************************************************************************)
C22_ExecuteSqlErrors ==
    [][last'.op = "Context.execute_sql"
        => LET query == last'.arg
           IN  /\ query.kind \in {"empty", "blank"} =>
                    /\ last'.exc = "ValueError"
                    /\ last'.ret.msg = EmptyQueryMsg
               /\ (query.kind \notin {"empty", "blank"}
                        /\ FrameIds(context) = {}) =>
                    /\ last'.exc = "ValueError"
                    /\ last'.ret.msg = NoFramesMsg
               /\ FrameIds(context') = FrameIds(context)
               /\ context'.frames = context.frames]_vars

\* A whitespace-only query on a context without frames has been refused as
\* an empty query.
C22_Witness ==
    /\ last.op = "Context.execute_sql"
    /\ last.arg = BlankQuery
    /\ FrameIds(context) = {}
    /\ last.exc = "ValueError"
    /\ last.ret.msg = EmptyQueryMsg

(***************************************************************************)
(* _validate_dataframe_matches_reference applied to a table and a          *)
(* reference that need not describe it.                                    *)
(***************************************************************************)
\* A value large enough for the relative tolerance to cover a difference
\* of one unit, and not of three.
Big == 2 * RelTolInv

\* A Float64 column of large values.
SeriesBig ==
    [dtype |-> "Float64", count |-> 3, null_count |-> 0, unique_count |-> 3,
     min |-> Num(Big), max |-> Num(Big), mean |-> Num(Big), std |-> Num(0),
     p25 |-> Num(Big), p50 |-> Num(Big), p75 |-> Num(Big)]
TBig == DataFrame(3, <<"a">>, [c \in {"a"} |-> SeriesBig])
\* The columns of TStr in the other order.
TSwapped ==
    DataFrame(2, <<"b", "a">>,
              [c \in {"a", "b"} |-> IF c = "a" THEN SeriesInt ELSE SeriesStr])
\* Three rows of an all-null column.
TNull3 == DataFrame(3, <<"a">>, [c \in {"a"} |-> [SeriesNull EXCEPT !.null_count = 3]])

ValidateFrames == {TA, TB, TStr, TBig, TSwapped, TNull3, Filtered(TA)}

\* The references DataFrameReference.from_dataframe records for tables.
RecordedReferences ==
    {from_dataframe(N_sales, t, MkId(1), <<>>, NoQuery) : t \in {TA, TB, TStr, TBig}}

\* Values a recorded statistic can be changed to.
StatisticValues ==
    {None, NaN, Num(1), Num(2), Str(1), Str(2), Num(Big + 1), Num(Big + 3)}

\* A reference with one field of one column summary changed: a statistic,
\* a count, the dtype or the description.
AlteredReferences ==
    UNION {UNION {
        {[r EXCEPT !.column_summaries[c][f] = v] :
            f \in ApproxFields, v \in StatisticValues}
        \cup {[r EXCEPT !.column_summaries[c][f] = @ + 1] :
            f \in {"count", "null_count", "unique_count"}}
        \cup {[r EXCEPT !.column_summaries[c].dtype = "Utf8"],
               [r EXCEPT !.column_summaries[c].description = "note"]} :
        c \in Range(r.column_names)} : r \in RecordedReferences}

\* A reference whose shape or column list was changed, alone or together
\* with a statistic, and a reference that records no summary for a column.
MisshapenReferences ==
    UNION {{[r EXCEPT !.num_rows = @ + 1],
            [r EXCEPT !.num_columns = @ + 1],
            [r EXCEPT !.column_names = <<"b">> \o Tail(@)],
            [r EXCEPT !.num_rows = @ + 1, !.column_names = <<"b">> \o Tail(@)],
            [r EXCEPT !.column_names = <<"b">> \o Tail(@),
                      !.column_summaries["a"].count = @ + 1],
            [r EXCEPT !.num_rows = @ + 1,
                      !.column_summaries["a"].count = @ + 1],
            [r EXCEPT !.column_summaries =
                [c \in (DOMAIN @) \ {"a"} |-> @[c]]]} :
           r \in RecordedReferences}

ValidateReferences ==
    RecordedReferences \cup AlteredReferences \cup MisshapenReferences

\* A caller holding a table and a reference.
InitValidate ==
    /\ context = EmptyContext
    /\ references = <<>>
    /\ \E dataframe \in ValidateFrames, reference \in ValidateReferences :
        last = Call("inputs", [dataframe |-> dataframe,
                               reference |-> reference], NoExc, NoRet)

ValidateDataframe ==
    /\ last.op = "inputs"
    /\ LET r == validate_against_reference(last.arg.dataframe,
                                           last.arg.reference)
       IN  last' = Call("_validate_dataframe_matches_reference", last.arg,
                        r.exc, [kind |-> "message", msg |-> r.msg])
    /\ UNCHANGED <<context, references>>

NextValidate == ValidateDataframe

SpecValidate == InitValidate /\ [][NextValidate]_vars

\* The differences the validation looks for, read off the table and the
\* reference.
ShapeDiffers(dataframe, reference) ==
    \/ dataframe.height # reference.num_rows
    \/ Len(dataframe.columns) # reference.num_columns
ColumnsDiffer(dataframe, reference) ==
    dataframe.columns # reference.column_names
StatisticsDiffer(dataframe, reference) ==
    \E c \in Range(dataframe.columns) :
        \/ \E f \in ExactFields :
            dataframe.series[c][f] # reference.column_summaries[c][f]
        \/ \E f \in ApproxFields :
            ~values_nearly_equal(dataframe.series[c][f],
                                 reference.column_summaries[c][f])
\* The reference records a summary for each of its columns.
SummariesKeyed(reference) ==
    DOMAIN reference.column_summaries = Range(reference.column_names)

CompareValues ==
    {None, NaN, Str(1), Str(2), Bool(TRUE), Bool(FALSE),
     Num(0), Num(1), Num(2), Num(-1),
     Num(RelTolInv), Num(RelTolInv + 1), Num(RelTolInv + 2)}

\* A caller holding two values.
InitCompare ==
    /\ context = EmptyContext
    /\ references = <<>>
    /\ \E actual \in CompareValues, expected \in CompareValues :
        last = Call("values", [actual |-> actual, expected |-> expected],
                    NoExc, NoRet)

ValuesNearlyEqual ==
    /\ last.op = "values"
    /\ last' = Call("_values_nearly_equal", last.arg, NoExc,
                    [kind |-> "bool",
                     value |-> values_nearly_equal(last.arg.actual,
                                                   last.arg.expected)])
    /\ UNCHANGED <<context, references>>

NextCompare == ValuesNearlyEqual

SpecCompare == InitCompare /\ [][NextCompare]_vars

\* |a - b| <= rel_tol * max(|a|, |b|) for integers a and b.
WithinTolerance(a, b) ==
    LET d == IF a >= b THEN a - b ELSE b - a
        ma == IF a >= 0 THEN a ELSE -a
        mb == IF b >= 0 THEN b ELSE -b
    IN  d <= (IF ma >= mb THEN ma ELSE mb) \div RelTolInv

(***************************************************************************)
(* C24: _values_nearly_equal(a, b) is true when both are None, when both   *)
(* are NaN, when both are equal strings, or when both are numbers within   *)
(* the relative tolerance; it is false when exactly one is None, when      *)
(* exactly one is NaN, when the strings differ, when the numbers are       *)
(* further apart, and when one is a string and the other a number.         *)
(***************************************************************************)
C24_NearlyEqualTable ==
    (/\ last.op = "_values_nearly_equal"
     /\ last.arg.actual.t # "bool"
     /\ last.arg.expected.t # "bool")
    => LET a == last.arg.actual
           b == last.arg.expected
       IN  last.ret.value =
            CASE a.t = "none" \/ b.t = "none" -> a.t = "none" /\ b.t = "none"
              [] a.t = "nan" \/ b.t = "nan" -> a.t = "nan" /\ b.t = "nan"
              [] a.t = "str" \/ b.t = "str" ->
                    a.t = "str" /\ b.t = "str" /\ a.v = b.v
              [] OTHER -> WithinTolerance(a.v, b.v)

\* Two large numbers one unit apart have been found nearly equal.
C24_Witness ==
    /\ last.op = "_values_nearly_equal"
    /\ last.arg.actual = Num(RelTolInv)
    /\ last.arg.expected = Num(RelTolInv + 1)
    /\ last.ret.value = TRUE

(***************************************************************************)
(* C25: _values_nearly_equal treats booleans as their own type: two        *)
(* booleans are equal iff they are the same value, and a boolean compared  *)
(* with a non-boolean (True with 1.0, False with 0.0, True with 'True'),   *)
(* in either argument order, is never equal.                               *)
(***************************************************************************)
C25_BoolOwnType ==
    (/\ last.op = "_values_nearly_equal"
     /\ last.arg.actual.t = "bool" \/ last.arg.expected.t = "bool")
    => last.ret.value =
        (/\ last.arg.actual.t = "bool"
         /\ last.arg.expected.t = "bool"
         /\ last.arg.actual.v = last.arg.expected.v)

(***************************************************************************)
(* sql_utils.py.  A query string is represented by what sqlglot makes of   *)
(* it: whether it is empty, whitespace-only or fails to parse, and         *)
(* otherwise the parsed expression: its type and the scopes that           *)
(* build_scope(expression).traverse() yields.  A scope holds its           *)
(* selected_sources in order (alias, name and whether the source is an     *)
(* exp.Table, a CTE or a derived subquery) and its exp.Column nodes        *)
(* (qualifier, name, and the alias of the source the column belongs to).   *)
(***************************************************************************)
\* str.lower() and str.upper() on the identifiers and command names used.
Lower(s) ==
    CASE s = "USERS" -> "users"
      [] s = "U" -> "u"
      [] s = "ID" -> "id"
      [] s = "DELETE" -> "delete"
      [] s = "SELECT" -> "select"
      [] s = "DROP" -> "drop"
      [] s = "Users" -> "users"
      [] OTHER -> s
Upper(s) ==
    CASE s \in {"delete", "Delete"} -> "DELETE"
      [] s = "select" -> "SELECT"
      [] s = "drop" -> "DROP"
      [] OTHER -> s

\* The identifiers in the order sorted() puts them.
IdentifierOrder ==
    <<"ID", "U", "USERS", "c", "foo", "id", "o", "orders", "s", "total", "u",
      "unknown_table", "users">>

\* sorted(names) for a set of identifiers.
Sorted(names) == SelectSeq(IdentifierOrder, LAMBDA n : n \in names)

\* _EXPRESSION_TYPE_MAP
EXPRESSION_TYPE_MAP ==
    [t \in {"Select", "Delete", "Insert", "Update", "Drop", "Create",
            "TruncateTable", "Alter", "Union", "Intersect", "Except"} |->
        CASE t = "Select" -> "SELECT"
          [] t = "Delete" -> "DELETE"
          [] t = "Insert" -> "INSERT"
          [] t = "Update" -> "UPDATE"
          [] t = "Drop" -> "DROP"
          [] t = "Create" -> "CREATE"
          [] t = "TruncateTable" -> "TRUNCATE"
          [] t = "Alter" -> "ALTER"
          [] OTHER -> "SELECT"]

\* The command type of an expression type the map does not hold.
NoCommandType == "None"

\* Mutant: the set operations are commands of their own.
get_sql_command_type_set_operations(expression) ==
    IF expression.type \in {"Union", "Intersect", "Except"}
    THEN Upper(expression.type)
    ELSE IF expression.type \in DOMAIN EXPRESSION_TYPE_MAP
    THEN EXPRESSION_TYPE_MAP[expression.type]
    ELSE NoCommandType

\* _get_sql_command_type(expression)
get_sql_command_type(expression) ==
    IF expression.type \in DOMAIN EXPRESSION_TYPE_MAP
    THEN EXPRESSION_TYPE_MAP[expression.type]
    ELSE NoCommandType

\* sqlglot.parse_one(query): the expression of a query that parses.
parse_one(query) == [type |-> query.type, scopes |-> query.scopes]

\* What a SQL validation function raises and the payload of the exception:
\* errors, command_type and blacklist, invalid_tables, invalid_columns.
SqlOutcome(exc) ==
    [exc |-> exc, errors |-> <<>>, command_type |-> NoCommandType,
     blacklist |-> {}, invalid_tables |-> <<>>, invalid_columns |-> <<>>,
     expression |-> [type |-> "", scopes |-> <<>>]]

\* parse_sql(query, blacklist=blacklist); blacklist = None is the empty
\* collection, which the code treats alike.
parse_sql(query, blacklist) ==
    IF query.text \in {"empty", "blank"}
    THEN SqlOutcome("SQLSyntaxError")
    ELSE IF query.text = "malformed"
    THEN [SqlOutcome("SQLSyntaxError") EXCEPT !.errors = <<"ParseError">>]
    ELSE LET expression == parse_one(query)
             command_type == get_sql_command_type(expression)
             normalized_blacklist == {Upper(cmd) : cmd \in blacklist}
         IN  IF /\ blacklist # {}
                /\ command_type # NoCommandType
                /\ Upper(command_type) \in normalized_blacklist
             THEN [SqlOutcome("SQLBlacklistedCommandError") EXCEPT
                        !.command_type = command_type,
                        !.blacklist = normalized_blacklist]
             ELSE [SqlOutcome(NoExc) EXCEPT !.expression = expression]

\* The first lines of validate_sql_tables and validate_sql_columns: a str
\* is parsed, an exp.Expression ("parsed") is taken as it is.
parse_if_str(query) ==
    IF query.text = "parsed"
    THEN [SqlOutcome(NoExc) EXCEPT !.expression = parse_one(query)]
    ELSE parse_sql(query, {})

\* The exp.Table sources of a scope's selected_sources, in order.
TableSources(scope) ==
    SelectSeq(scope.sources, LAMBDA src : src.kind = "table")

RECURSIVE Flatten(_)
Flatten(seqs) ==
    IF seqs = <<>> THEN <<>> ELSE Head(seqs) \o Flatten(Tail(seqs))

\* Mutant: every selected source counts, CTEs and subqueries included.
extract_table_names_all_sources(expression) ==
    Flatten([i \in 1..Len(expression.scopes) |->
                [j \in 1..Len(expression.scopes[i].sources) |->
                    Lower(expression.scopes[i].sources[j].name)]])

\* _extract_table_names(expression): no scope, no tables.
extract_table_names(expression) ==
    Flatten([i \in 1..Len(expression.scopes) |->
                LET tables == TableSources(expression.scopes[i])
                IN  [j \in 1..Len(tables) |-> Lower(tables[j].name)]])

\* Mutant: the scope traversal consumes the scopes of the expression.
validate_sql_tables_consumes_scopes(query, valid_tables) ==
    LET p == parse_if_str(query)
        referenced_table_names == extract_table_names(p.expression)
        invalid_tables ==
            Sorted(Range(referenced_table_names)
                   \ {Lower(t) : t \in valid_tables})
        consumed == [p.expression EXCEPT !.scopes = <<>>]
    IN  IF p.exc # NoExc THEN p
        ELSE IF referenced_table_names = <<>> \/ invalid_tables # <<>>
        THEN [SqlOutcome("SQLTableError") EXCEPT
                    !.invalid_tables = invalid_tables,
                    !.expression = consumed]
        ELSE [SqlOutcome(NoExc) EXCEPT !.expression = consumed]

\* validate_sql_tables(query, valid_tables)
validate_sql_tables(query, valid_tables) ==
    LET p == parse_if_str(query)
        referenced_table_names == extract_table_names(p.expression)
        normalized_valid_tables == {Lower(t) : t \in valid_tables}
        invalid_tables ==
            Sorted(Range(referenced_table_names) \ normalized_valid_tables)
    IN  IF p.exc # NoExc THEN p
        ELSE IF referenced_table_names = <<>>
        THEN [SqlOutcome("SQLTableError") EXCEPT !.expression = p.expression]
        ELSE IF invalid_tables # <<>>
        THEN [SqlOutcome("SQLTableError") EXCEPT
                    !.invalid_tables = invalid_tables,
                    !.expression = p.expression]
        ELSE [SqlOutcome(NoExc) EXCEPT !.expression = p.expression]

\* d[key] = value on a dict kept as the sequence of its items.
DictPut(d, key, value) ==
    IF \E i \in 1..Len(d) : d[i].key = key
    THEN [i \in 1..Len(d) |->
            IF d[i].key = key THEN [key |-> key, value |-> value] ELSE d[i]]
    ELSE Append(d, [key |-> key, value |-> value])
DictKeys(d) == {d[i].key : i \in 1..Len(d)}
DictGet(d, key) == d[CHOOSE i \in 1..Len(d) : d[i].key = key].value

\* _build_alias_to_table_map(scope): lower-cased alias to lower-cased name
\* of the exp.Table sources.
RECURSIVE alias_to_table_of(_, _)
alias_to_table_of(sources, d) ==
    IF sources = <<>> THEN d
    ELSE alias_to_table_of(
            Tail(sources),
            IF Head(sources).kind = "table"
            THEN DictPut(d, Lower(Head(sources).alias),
                         Lower(Head(sources).name))
            ELSE d)
build_alias_to_table_map(scope) == alias_to_table_of(scope.sources, <<>>)

\* No base table.
NoTable == "None"

\* Mutant: an unqualified column is never resolved.
resolve_column_to_base_table_qualified_only(column, alias_to_table) ==
    IF column.table # "" /\ Lower(column.table) \in DictKeys(alias_to_table)
    THEN DictGet(alias_to_table, Lower(column.table))
    ELSE NoTable

\* _resolve_column_to_base_table(column, alias_to_table)
resolve_column_to_base_table(column, alias_to_table) ==
    LET table_alias == IF column.table # "" THEN Lower(column.table) ELSE ""
    IN  IF table_alias # ""
        THEN IF table_alias \in DictKeys(alias_to_table)
             THEN DictGet(alias_to_table, table_alias)
             ELSE NoTable
        ELSE IF Len(alias_to_table) = 1 THEN alias_to_table[1].value
        ELSE NoTable

\* _validate_column_in_scope(column, alias_to_table, normalized_schema,
\* invalid_columns): the invalid_columns dict it leaves behind.
validate_column_in_scope(column, alias_to_table, normalized_schema, invalid_columns) ==
    LET col_name == Lower(column.name)
        base_table == resolve_column_to_base_table(column, alias_to_table)
    IN  IF base_table = NoTable \/ base_table \notin DOMAIN normalized_schema
        THEN invalid_columns
        ELSE IF col_name \in normalized_schema[base_table]
        THEN invalid_columns
        ELSE LET listed == IF base_table \in DictKeys(invalid_columns)
                           THEN DictGet(invalid_columns, base_table)
                           ELSE <<>>
             IN  DictPut(invalid_columns, base_table,
                         IF col_name \in Range(listed) THEN listed
                         ELSE Append(listed, col_name))

\* The loop over the columns of one scope.
RECURSIVE validate_columns_of_scope(_, _, _, _)
validate_columns_of_scope(columns, alias_to_table, normalized_schema, invalid_columns) ==
    IF columns = <<>> THEN invalid_columns
    ELSE validate_columns_of_scope(
            Tail(columns), alias_to_table, normalized_schema,
            validate_column_in_scope(Head(columns), alias_to_table,
                                     normalized_schema, invalid_columns))

\* The loop of _collect_invalid_columns over the scopes.
RECURSIVE collect_in_scopes(_, _, _)
collect_in_scopes(scopes, normalized_schema, invalid_columns) ==
    IF scopes = <<>> THEN invalid_columns
    ELSE collect_in_scopes(
            Tail(scopes), normalized_schema,
            validate_columns_of_scope(
                Head(scopes).columns, build_alias_to_table_map(Head(scopes)),
                normalized_schema, invalid_columns))

\* _collect_invalid_columns(expression, normalized_schema)
collect_invalid_columns(expression, normalized_schema) ==
    collect_in_scopes(expression.scopes, normalized_schema, <<>>)

\* The dict comprehension of validate_sql_columns: lower-cased table names
\* to lower-cased column sets; of two names that lower to the same key the
\* one listed last stays.  table_columns is the sequence of the dict's
\* items.
RECURSIVE normalized_schema_of(_, _)
normalized_schema_of(table_columns, d) ==
    IF table_columns = <<>> THEN d
    ELSE normalized_schema_of(
            Tail(table_columns),
            MapPut(d, Lower(Head(table_columns).key),
                   {Lower(col) : col \in Head(table_columns).value}))

\* validate_sql_columns(query, table_columns)
validate_sql_columns(query, table_columns) ==
    LET p == parse_if_str(query)
        normalized_schema == normalized_schema_of(table_columns, EmptyMap)
        invalid_columns == collect_invalid_columns(p.expression,
                                                   normalized_schema)
    IN  IF p.exc # NoExc THEN p
        ELSE IF invalid_columns # <<>>
        THEN [SqlOutcome("SQLColumnError") EXCEPT
                    !.invalid_columns = invalid_columns,
                    !.expression = p.expression]
        ELSE [SqlOutcome(NoExc) EXCEPT !.expression = p.expression]

(***************************************************************************)
(* parse_sql, validate_sql_tables and validate_sql_columns applied to      *)
(* queries.                                                                *)
(***************************************************************************)
Source(alias, name, kind) == [alias |-> alias, name |-> name, kind |-> kind]
Column(table, name, source) == [table |-> table, name |-> name, source |-> source]
Scope(sources, columns) == [sources |-> sources, columns |-> columns]

\* FROM users, FROM USERS AS U, FROM orders, FROM unknown_table; a CTE
\* c AS (SELECT 1 AS total); a derived (SELECT id AS total FROM users) AS s.
SourceOptions ==
    <<Source("users", "users", "table"), Source("U", "USERS", "table"),
      Source("orders", "orders", "table"),
      Source("unknown_table", "unknown_table", "table"),
      Source("c", "c", "cte"), Source("s", "s", "subquery")>>

\* The scope of the query that defines a derived source.
DefiningScope(source) ==
    IF source.kind = "cte" THEN Scope(<<>>, <<>>)
    ELSE Scope(<<Source("users", "users", "table")>>,
               <<Column("", "id", "users")>>)

\* The sources of a scope: up to two of the options, in their order.
SourceLists ==
    {<<>>} \cup {<<SourceOptions[i]>> : i \in 1..Len(SourceOptions)}
    \cup {<<SourceOptions[ij[1]], SourceOptions[ij[2]]>> :
            ij \in {p \in (1..Len(SourceOptions)) \X (1..Len(SourceOptions)) :
                        p[1] < p[2]}}

\* The column references a scope can hold: a column of one of its sources,
\* written with the source's alias (in lower case) or without qualifier.
ColumnsOver(sources) ==
    UNION {{Column(q, n, sources[i].alias) :
                n \in {"id", "total", "foo"},
                q \in {"", IF sources[i].alias = "U" THEN "u"
                           ELSE sources[i].alias}} : i \in 1..Len(sources)}

\* Up to two column references.
ColumnLists(sources) ==
    {<<>>} \cup {<<c>> : c \in ColumnsOver(sources)}
    \cup {<<cd[1], cd[2]>> :
            cd \in {p \in ColumnsOver(sources) \X ColumnsOver(sources) :
                        p[1] # p[2]}}

\* The scopes of a SELECT over the sources: the defining scopes of its
\* derived sources, then its own.
SelectScopes(sources, columns) ==
    [i \in 1..Len(SelectSeq(sources, LAMBDA src : src.kind # "table")) |->
        DefiningScope(SelectSeq(sources, LAMBDA src : src.kind # "table")[i])]
    \o <<Scope(sources, columns)>>

SelectExpressions ==
    UNION {{[type |-> "Select", scopes |-> SelectScopes(sources, columns)] :
                columns \in ColumnLists(sources)} : sources \in SourceLists}

\* SELECT id FROM users UNION SELECT id FROM orders; DELETE FROM users;
\* DROP TABLE users; a statement sqlglot keeps as a generic Command.
OtherExpressions ==
    {[type |-> "Union",
      scopes |-> <<Scope(<<Source("users", "users", "table")>>,
                         <<Column("", "id", "users")>>),
                   Scope(<<Source("orders", "orders", "table")>>,
                         <<Column("", "id", "orders")>>),
                   Scope(<<>>, <<>>)>>],
     [type |-> "Delete", scopes |-> <<>>],
     [type |-> "Drop", scopes |-> <<>>],
     [type |-> "Command", scopes |-> <<>>]}

Text(text, expression) ==
    [text |-> text, type |-> expression.type, scopes |-> expression.scopes]

\* Query arguments: strings (empty, blank, malformed, parsing to an
\* expression) and parsed expressions.
SqlQueries ==
    {Text(t, [type |-> "", scopes |-> <<>>]) : t \in {"empty", "blank", "malformed"}}
    \cup {Text(t, e) : t \in {"ok", "parsed"},
                       e \in SelectExpressions \cup OtherExpressions}

Blacklists == {{}, {"DELETE", "DROP"}, {"delete"}, {"select"}}
ValidTableSets == {{}, {"users"}, {"Users", "orders"}}
Item(key, value) == [key |-> key, value |-> value]
Schemas ==
    {<<>>,
     <<Item("users", {"id", "name"}), Item("orders", {"id", "total"})>>,
     <<Item("Users", {"ID"})>>}

\* A caller holding a query.
InitSql ==
    /\ context = EmptyContext
    /\ references = <<>>
    /\ \E query \in SqlQueries : last = Call("query", query, NoExc, NoRet)

ParseSql(blacklist) ==
    /\ last.op = "query"
    /\ last.arg.text # "parsed"
    /\ LET r == parse_sql(last.arg, blacklist)
       IN  last' = Call("parse_sql", [query |-> last.arg, with |-> blacklist],
                        r.exc, r)
    /\ UNCHANGED <<context, references>>

ValidateSqlTables(valid_tables) ==
    /\ last.op = "query"
    /\ LET r == validate_sql_tables(last.arg, valid_tables)
       IN  last' = Call("validate_sql_tables",
                        [query |-> last.arg, with |-> valid_tables], r.exc, r)
    /\ UNCHANGED <<context, references>>

ValidateSqlColumns(table_columns) ==
    /\ last.op = "query"
    /\ LET r == validate_sql_columns(last.arg, table_columns)
       IN  last' = Call("validate_sql_columns",
                        [query |-> last.arg, with |-> table_columns], r.exc, r)
    /\ UNCHANGED <<context, references>>

\* The caller makes the call it has just made once more, with the same
\* arguments: the same string, or the expression object as the first call
\* left it.
CallAgain ==
    /\ last.op \in {"parse_sql", "validate_sql_tables", "validate_sql_columns"}
    /\ LET query == IF last.arg.query.text = "parsed"
                    THEN Text("parsed", last.ret.expression)
                    ELSE last.arg.query
           r == CASE last.op = "parse_sql" -> parse_sql(query, last.arg.with)
                  [] last.op = "validate_sql_tables" ->
                        validate_sql_tables(query, last.arg.with)
                  [] OTHER -> validate_sql_columns(query, last.arg.with)
       IN  last' = Call("again",
                        [op |-> last.op, query |-> query,
                         with |-> last.arg.with, first |-> last.ret],
                        r.exc, r)
    /\ UNCHANGED <<context, references>>

NextSql ==
    \/ \E blacklist \in Blacklists : ParseSql(blacklist)
    \/ \E valid_tables \in ValidTableSets : ValidateSqlTables(valid_tables)
    \/ \E table_columns \in Schemas : ValidateSqlColumns(table_columns)
    \/ CallAgain

SpecSql == InitSql /\ [][NextSql]_vars

\* The query argument of the last SQL call parses to an expression.
Parses(query) == query.text \in {"ok", "parsed"}

\* The sources of all scopes of a query.
AllSources(query) ==
    UNION {Range(query.scopes[i].sources) : i \in 1..Len(query.scopes)}

\* The real tables a query references, in lower case.
ReferencedTables(query) ==
    {Lower(src.name) : src \in {x \in AllSources(query) : x.kind = "table"}}

\* Where sorted() puts an identifier.
Position(n) == CHOOSE i \in 1..Len(IdentifierOrder) : IdentifierOrder[i] = n

\* C26: validate_sql_tables on a query that parses counts as referenced the
\* lower-cased names of the real-table sources of all scopes (CTEs and
\* derived subqueries are not counted); with none referenced it raises
\* SQLTableError with invalid_tables == []; with referenced tables outside
\* the lower-cased valid_tables it raises SQLTableError whose invalid_tables
\* is their sorted, duplicate-free list; otherwise it returns normally.
C26_ValidateTables ==
    (last.op = "validate_sql_tables" /\ Parses(last.arg.query)) =>
        LET referenced == ReferencedTables(last.arg.query)
            outside == referenced \ {Lower(t) : t \in last.arg.with}
            invalid_tables == last.ret.invalid_tables
        IN  /\ referenced = {} =>
                /\ last.exc = "SQLTableError"
                /\ invalid_tables = <<>>
            /\ (referenced # {} /\ outside # {}) =>
                /\ last.exc = "SQLTableError"
                /\ Range(invalid_tables) = outside
                /\ \A i, j \in 1..Len(invalid_tables) :
                        i < j => Position(invalid_tables[i])
                                    < Position(invalid_tables[j])
            /\ (referenced # {} /\ outside = {}) => last.exc = NoExc

\* A query over a derived subquery and real tables, one of them valid under
\* a name written in another case, is refused for the one table that is
\* not valid.
C26_Witness ==
    /\ last.op = "validate_sql_tables"
    /\ \E src \in AllSources(last.arg.query) : src.kind # "table"
    /\ "users" \in ReferencedTables(last.arg.query)
    /\ "Users" \in last.arg.with
    /\ last.exc = "SQLTableError"
    /\ last.ret.invalid_tables = <<"unknown_table">>

\* The base table the claim resolves a column reference of a scope to: a
\* qualified column through the real-table source with that alias, an
\* unqualified one to the only real-table source of the scope.
BaseTablesOf(scope, column) ==
    LET tables == {src \in Range(scope.sources) : src.kind = "table"}
    IN  IF column.table # ""
        THEN {Lower(src.name) :
                src \in {x \in tables : Lower(x.alias) = Lower(column.table)}}
        ELSE IF Cardinality(tables) = 1
        THEN {Lower(src.name) : src \in tables}
        ELSE {}

\* The (base table, column) pairs of a query that violate a schema.
ViolatingPairs(query, table_columns) ==
    UNION {UNION {{<<t, Lower(query.scopes[i].columns[j].name)>> :
                      t \in {b \in BaseTablesOf(query.scopes[i],
                                                query.scopes[i].columns[j]) :
                                \E k \in 1..Len(table_columns) :
                                    /\ Lower(table_columns[k].key) = b
                                    /\ Lower(query.scopes[i].columns[j].name)
                                        \notin {Lower(c) :
                                                  c \in table_columns[k].value}}} :
                    j \in 1..Len(query.scopes[i].columns)} :
            i \in 1..Len(query.scopes)}

\* The (table, column) pairs an invalid_columns dict holds.
ReportedPairs(invalid_columns) ==
    UNION {{<<invalid_columns[i].key, invalid_columns[i].value[k]>> :
                k \in 1..Len(invalid_columns[i].value)} :
            i \in 1..Len(invalid_columns)}

\* No table twice, no column of a table twice.
ReportedOnce(invalid_columns) ==
    /\ \A i, j \in 1..Len(invalid_columns) :
            invalid_columns[i].key = invalid_columns[j].key => i = j
    /\ \A i \in 1..Len(invalid_columns) :
            \A k, l \in 1..Len(invalid_columns[i].value) :
                invalid_columns[i].value[k] = invalid_columns[i].value[l]
                    => k = l

OwnerOf(scope, column) ==
    CHOOSE src \in Range(scope.sources) : src.alias = column.source

\* The columns the CTE and the derived subquery of SourceOptions give:
\* both select a single column AS total.
DerivedColumns == {"total"}

\* A base-table column the schema does not rule out: its table is not in
\* the schema, or holds the column.
InSchema(table, name, table_columns) ==
    \A k \in 1..Len(table_columns) :
        Lower(table_columns[k].key) = Lower(table) =>
            Lower(name) \in {Lower(c) : c \in table_columns[k].value}

\* Every column reference of the query is a column of the source it belongs
\* to: a column its CTE or derived subquery gives, or a base-table column
\* the schema does not rule out.
Legitimate(query, table_columns) ==
    \A i \in 1..Len(query.scopes) :
        \A j \in 1..Len(query.scopes[i].columns) :
            LET column == query.scopes[i].columns[j]
                owner == OwnerOf(query.scopes[i], column)
            IN  IF owner.kind = "table"
                THEN InSchema(owner.name, column.name, table_columns)
                ELSE column.name \in DerivedColumns

\* C28: validate_sql_columns checks only base-table references: a query
\* whose columns all belong to their sources, those of CTEs and derived
\* subqueries included, qualified or not and with or without a base table
\* in the same scope, is never rejected with SQLColumnError.
C28_DerivedNeverRejected ==
    (/\ last.op = "validate_sql_columns"
     /\ Parses(last.arg.query)
     /\ Legitimate(last.arg.query, last.arg.with)) => last.exc = NoExc

\* The same for queries that write the columns of their CTEs and derived
\* subqueries with the qualifier.
QualifiedDerivedNeverRejected ==
    (/\ last.op = "validate_sql_columns"
     /\ Parses(last.arg.query)
     /\ Legitimate(last.arg.query, last.arg.with)
     /\ \A i \in 1..Len(last.arg.query.scopes) :
            \A j \in 1..Len(last.arg.query.scopes[i].columns) :
                LET column == last.arg.query.scopes[i].columns[j]
                IN  OwnerOf(last.arg.query.scopes[i], column).kind # "table"
                        => column.table # "") => last.exc = NoExc

\* The top-level command of an expression, a set operation counting as
\* SELECT; statements outside the eight commands have none.
CommandOf(type) ==
    CASE type \in {"Select", "Union", "Intersect", "Except"} -> "select"
      [] type = "Delete" -> "delete"
      [] type = "Drop" -> "drop"
      [] OTHER -> ""

\* C29: parse_sql raises SQLSyntaxError for an empty or whitespace-only
\* query, with an empty errors list, and for a query that fails to parse,
\* whatever the blacklist; for a query that parses it raises
\* SQLBlacklistedCommandError iff a blacklist is supplied that holds, in any
\* case, the top-level command type (set operations counting as SELECT),
\* and otherwise returns the parsed expression.
C29_ParseSql ==
    last.op = "parse_sql" =>
        LET query == last.arg.query
            blacklisted == \E cmd \in last.arg.with :
                                Lower(cmd) = CommandOf(query.type)
        IN  /\ query.text \in {"empty", "blank"} =>
                /\ last.exc = "SQLSyntaxError"
                /\ last.ret.errors = <<>>
            /\ query.text = "malformed" => last.exc = "SQLSyntaxError"
            /\ (query.text = "ok" /\ blacklisted) =>
                /\ last.exc = "SQLBlacklistedCommandError"
                /\ Lower(last.ret.command_type) = CommandOf(query.type)
            /\ (query.text = "ok" /\ ~blacklisted) =>
                /\ last.exc = NoExc
                /\ last.ret.expression =
                        [type |-> query.type, scopes |-> query.scopes]

\* A UNION is refused as a SELECT by a blacklist written in lower case.
C29_Witness ==
    /\ last.op = "parse_sql"
    /\ last.arg.query.type = "Union"
    /\ last.arg.with = {"select"}
    /\ last.exc = "SQLBlacklistedCommandError"
    /\ last.ret.command_type = "SELECT"

validate_dataframe_id(value) ==
    IF ~DATAFRAME_ID_PATTERN_match(value)
    THEN [exc |-> "ValueError", value |-> <<>>]
    ELSE [exc |-> NoExc, value |-> value]

\* Characters inside and outside [0-9a-f], and white space.
IdAlphabet == {"d", "f", "_", "0", "9", "a", "g", "A", " ", "\n"}

\* The strings one edit away from an identifier: a character replaced,
\* dropped, put in front or put behind; and two newlines put behind.
EditsOf(s) ==
    {s, s \o <<"\n", "\n">>}
    \cup {[s EXCEPT ![i] = c] : i \in 1..Len(s), c \in IdAlphabet}
    \cup {SubSeq(s, 1, i - 1) \o SubSeq(s, i + 1, Len(s)) : i \in 1..Len(s)}
    \cup {s \o <<c>> : c \in IdAlphabet}
    \cup {<<c>> \o s : c \in IdAlphabet}

\* Strings handed to validate_dataframe_id.
IdStrings == UNION {EditsOf(s) : s \in GeneratedIds \cup {N_df_abcd1234}}

\* A caller holding a string.
InitId ==
    /\ context = EmptyContext
    /\ references = <<>>
    /\ \E value \in IdStrings : last = Call("value", value, NoExc, NoRet)

GenerateDataframeId ==
    /\ last.op = "value"
    /\ \E id \in GeneratedIds :
            last' = Call("generate_dataframe_id", <<>>, NoExc,
                         [kind |-> "id", value |-> id])
    /\ UNCHANGED <<context, references>>

\* validate_dataframe_id on the string held, or on the identifier just
\* generated.
ValidateDataframeId ==
    /\ last.op \in {"value", "generate_dataframe_id"}
    /\ LET value == IF last.op = "value" THEN last.arg ELSE last.ret.value
           r == validate_dataframe_id(value)
       IN  last' = Call("validate_dataframe_id", value, r.exc,
                        [kind |-> "id", value |-> r.value])
    /\ UNCHANGED <<context, references>>

NextId == GenerateDataframeId \/ ValidateDataframeId

SpecId == InitId /\ [][NextId]_vars

\* "df_" followed by exactly eight characters of 0-9 or a-f, nothing
\* before and nothing after.
IsDataFrameId(s) ==
    /\ Len(s) = IdPrefixLen + IdHexLen
    /\ SubSeq(s, 1, IdPrefixLen) = <<"d", "f", "_">>
    /\ \A i \in (IdPrefixLen + 1)..Len(s) : s[i] \in HexChars

\* C31: validate_dataframe_id accepts a string iff it is exactly "df_"
\* followed by exactly eight characters of 0-9 or a-f, nothing before and
\* nothing after; every identifier generate_dataframe_id produces is
\* accepted.
C31_ValidateIdIff ==
    last.op = "validate_dataframe_id" =>
        /\ (last.exc = NoExc) <=> IsDataFrameId(last.arg)
        /\ last.exc \in {NoExc, "ValueError"}
        /\ last.arg \in GeneratedIds => last.exc = NoExc

\* What the pattern accepts: an identifier, or an identifier and one
\* newline behind it.
ValidateIdUpToNewline ==
    last.op = "validate_dataframe_id" =>
        /\ (last.exc = NoExc) <=>
                \/ IsDataFrameId(last.arg)
                \/ /\ Len(last.arg) = IdPrefixLen + IdHexLen + 1
                   /\ last.arg[Len(last.arg)] = "\n"
                   /\ IsDataFrameId(SubSeq(last.arg, 1, Len(last.arg) - 1))
        /\ last.arg \in GeneratedIds => last.exc = NoExc

(***************************************************************************)
(* caching.py: cache_calls and evict_calls on a diskcache.Cache.           *)
(*                                                                         *)
(* A decorated function is its __name__, what its body returns and the     *)
(* cache handed to cache_calls.  An argument is its Python value (3 and    *)
(* 3.0 are equal) and the JSON text to_json gives it ("3" and "3.0").      *)
(* The cache maps a key to the value and the tag stored under it; `by`     *)
(* records, for the properties only, the function whose call stored it.    *)
(***************************************************************************)
\* Largest number of distinct (function, arguments) calls followed.
MaxCalled == 3

PyNone == "None"

DecoratedFunction(id, name, body, cached) ==
    [id |-> id, name |-> name, body |-> body, cached |-> cached]

\* func1 and func2 share a cache; so do a function of another module that
\* is also named func1 and a function that returns None; func_no_cache is
\* decorated with cache=None.
func1 == DecoratedFunction(1, "func1", "square", TRUE)
func2 == DecoratedFunction(2, "func2", "square", TRUE)
func1_elsewhere == DecoratedFunction(3, "func1", "cube", TRUE)
func_none == DecoratedFunction(4, "func_none", "none", TRUE)
func_no_cache == DecoratedFunction(5, "func_no_cache", "square", FALSE)
DecoratedFunctions == {func1, func2, func1_elsewhere, func_none, func_no_cache}

PyFloat(x) == [py |-> x, json |-> IF x = 2 THEN "2.0" ELSE "3.0"]
PyInt(x) == [py |-> x, json |-> IF x = 2 THEN "2" ELSE "3"]
\* Arguments of the calls: 2.0, 3.0 and 2.
ArgumentInputs == {PyFloat(2), PyFloat(3), PyInt(2)}

\* func(*args, **kwargs): the result of the body.
Body(func, args) ==
    IF func.body = "none" THEN PyNone ELSE <<func.body, args.py>>

\* _get_function_name(func) of a callable with a __name__.
get_function_name(func) == func.name

\* pydantic_core.to_json of the arguments.
to_json(args) == args.json

\* _get_cache_key(func_name, args, kwargs): the MD5 digest of the JSON of
\* name and arguments; different JSON texts are taken to have different
\* digests.
get_cache_key(func_name, args) == <<func_name, to_json(args)>>

\* cache.get(key): the value stored, None without one.
Cache_get(cache, key) ==
    IF key \in DOMAIN cache THEN cache[key].value ELSE PyNone

\* cache.set(key=key, value=value, tag=tag)
Cache_set(cache, key, value, tag, by) ==
    MapPut(cache, key, [value |-> value, tag |-> tag, by |-> by])

\* cache.evict(tag=tag): the entries with the tag go, their number is
\* returned.
Cache_evict(cache, tag) ==
    LET tagged == {k \in DOMAIN cache : cache[k].tag = tag}
    IN  [cache |-> [k \in (DOMAIN cache) \ tagged |-> cache[k]],
         num |-> Cardinality(tagged)]

\* The wrapper cache_calls(cache)(func) called with args: the value it
\* returns, whether the body of func was executed, and the cache after.
wrapper(cache, func, args) ==
    IF ~func.cached
    THEN [value |-> Body(func, args), executed |-> TRUE, cache |-> cache]
    ELSE LET func_name == get_function_name(func)
             cache_key == get_cache_key(func_name, args)
             value == Cache_get(cache, cache_key)
             result == Body(func, args)
         IN  IF value # PyNone
             THEN [value |-> value, executed |-> FALSE, cache |-> cache]
             ELSE [value |-> result, executed |-> TRUE,
                   cache |-> Cache_set(cache, cache_key, result, func_name,
                                       func.id)]

\* evict_calls(cache, func)
evict_calls(cache, func) == Cache_evict(cache, get_function_name(func))

\* The shared cache is carried with the last call, and with it the calls
\* made so far: `ever` all of them, `fresh` those since the last eviction
\* with the value each returned first.
CacheCall(op, arg, ret, cache, ever, fresh) ==
    [op |-> op, arg |-> arg, exc |-> NoExc, ret |-> ret, cache |-> cache,
     ever |-> ever, fresh |-> fresh]

\* Cache(): nothing stored.
InitCache ==
    /\ context = EmptyContext
    /\ references = <<>>
    /\ last = CacheCall("init", <<>>, NoRet, EmptyMap, {}, {})

CallDecorated(func, args) ==
    /\ \/ <<func.id, args>> \in last.ever
       \/ Cardinality(last.ever) < MaxCalled
    /\ LET r == wrapper(last.cache, func, args)
           first == \A c \in last.fresh :
                        ~(c[1] = func.id /\ c[2].py = args.py)
       IN  last' = CacheCall("call", [func |-> func, args |-> args],
                             [kind |-> "result", value |-> r.value,
                              executed |-> r.executed],
                             r.cache, last.ever \cup {<<func.id, args>>},
                             IF first
                             THEN last.fresh \cup {<<func.id, args, r.value>>}
                             ELSE last.fresh)
    /\ UNCHANGED <<context, references>>

EvictCalls(func) ==
    /\ func.cached
    /\ LET r == evict_calls(last.cache, func)
       IN  last' = CacheCall("evict_calls", [func |-> func],
                             [kind |-> "count", num |-> r.num],
                             r.cache, last.ever, {})
    /\ UNCHANGED <<context, references>>

NextCache ==
    \/ \E func \in DecoratedFunctions, args \in ArgumentInputs :
            CallDecorated(func, args)
    \/ \E func \in DecoratedFunctions : EvictCalls(func)

SpecCache == InitCache /\ [][NextCache]_vars

\* The step is a call of a decorated function.
IsDecoratedCall == last'.op = "call"

\* The function was called with equal arguments since the last eviction,
\* and returned this value the first time.
ReturnedSinceEviction(func, args, value) ==
    \E c \in last.fresh :
        c[1] = func.id /\ c[2].py = args.py /\ c[3] = value

\* The function was called before, never with equal arguments.
CalledOnlyWithOthers(func, args) ==
    /\ \E c \in last.ever : c[1] = func.id
    /\ \A c \in last.ever : c[1] = func.id => c[2].py # args.py

\* What C32 says of one step.
CallCached ==
    IsDecoratedCall =>
        LET func == last'.arg.func
            args == last'.arg.args
        IN  IF func.cached
            THEN /\ (\E value \in {c[3] : c \in last.fresh} :
                        ReturnedSinceEviction(func, args, value)) =>
                        /\ ~last'.ret.executed
                        /\ ReturnedSinceEviction(func, args,
                                                 last'.ret.value)
                 /\ CalledOnlyWithOthers(func, args) => last'.ret.executed
            ELSE last'.ret.executed

\* C32: with a cache supplied, once a decorated function has been called
\* with given arguments, every later call of it with equal arguments and no
\* eviction in between returns the same result without executing the body
\* again, while a call with different arguments executes it; with
\* cache=None every call executes the body.
C32_CachedCalls == [][CallCached]_vars

\* Functions with names of their own that return a value, and arguments
\* of one type.
PlainFunctionIds == {func1.id, func2.id, func_no_cache.id}
PlainArguments == {PyFloat(2), PyFloat(3)}
PlainUse(ever) ==
    \A c \in ever : c[1] \in PlainFunctionIds /\ c[2] \in PlainArguments

\* The same for callers that only use functions with names of their own
\* that do not return None, and arguments of one type.
CachedCallsInPlainUse ==
    [][PlainUse(last'.ever) => CallCached]_vars

\* The entries of a cache that calls of func stored.
StoredBy(cache, func) == {k \in DOMAIN cache : cache[k].by = func.id}

\* What C33 says of one step.
EvictExact ==
    last'.op = "evict_calls" =>
        LET func == last'.arg.func
            stored == StoredBy(last.cache, func)
        IN  /\ DOMAIN last'.cache = (DOMAIN last.cache) \ stored
            /\ \A k \in DOMAIN last'.cache : last'.cache[k] = last.cache[k]
            /\ last'.ret.num = Cardinality(stored)

\* C33: evict_calls(cache, f) removes exactly the cached entries created by
\* calls of f and returns their number; the entries of every other
\* decorated function sharing the cache stay and still hit.
C33_EvictExact == [][EvictExact]_vars

\* The same for callers that only use functions with names of their own.
EvictExactInPlainUse ==
    [][(/\ PlainUse(last'.ever)
        /\ last'.op = "evict_calls"
        /\ last'.arg.func.id \in PlainFunctionIds) => EvictExact]_vars

(***************************************************************************)
(* restore_from_state followed step by step on a context and a reference   *)
(* map created empty: the checks of the bases, the registration of each    *)
(* base, the sort, and each round of the replay loop.  The position of the *)
(* call is carried with the last step: where it is, the state and tables   *)
(* it was called with, and what is left of the list it is working on.      *)
(***************************************************************************)
RestoreAt(at, state, base_dataframes, pending, ran, about) ==
    [kind |-> "position", at |-> at, state |-> state,
     base_dataframes |-> base_dataframes, pending |-> pending, ran |-> ran,
     about |-> about]

\* Steps 1 to 4: nothing is registered yet.
BeginRestore(state, base_dataframes) ==
    /\ last.op \in {"init", "fresh"}
    /\ references = <<>>
    /\ FrameIds(context) = {}
    /\ LET c == check_bases(state, base_dataframes)
       IN  last' = Call("check_bases",
                        [missing_base |-> MissingBase(state, base_dataframes)],
                        c.exc,
                        RestoreAt(IF c.exc # NoExc THEN "raised" ELSE "bases",
                                 state, base_dataframes, c.normalized, FALSE,
                                 <<>>))
    /\ UNCHANGED <<context, references>>

\* Step 5, one round: _register_with_reference for the next base.
RegisterBase ==
    /\ last.ret.kind = "position"
    /\ last.ret.at = "bases"
    /\ last.ret.pending # <<>>
    /\ LET item == Head(last.ret.pending)
           ref == RefAt(base_refs_of(last.ret.state), item.key)
           r == register_with_reference(Registry, ref, item.frame)
       IN  /\ context' = r.context
           /\ references' = r.references
           /\ last' = Call("register_base", ref, r.exc,
                           RestoreAt(IF r.exc # NoExc THEN "raised"
                                    ELSE "bases",
                                    last.ret.state, last.ret.base_dataframes,
                                    Tail(last.ret.pending), FALSE, <<>>))

\* Step 6 begins: _sort_references_by_dependency_order.
BeginReplay ==
    /\ last.ret.kind = "position"
    /\ last.ret.at = "bases"
    /\ last.ret.pending = <<>>
    /\ LET s == sort_references_by_dependency_order(
                    last.ret.state.references)
       IN  last' = Call("sort", <<>>, s.exc,
                        RestoreAt(IF s.exc # NoExc THEN "raised" ELSE "replay",
                                 last.ret.state, last.ret.base_dataframes,
                                 s.sorted, FALSE,
                                 IF s.exc # NoExc THEN CyclicDependency
                                 ELSE <<>>))
    /\ UNCHANGED <<context, references>>

\* One round of the loop of _reconstruct_derivatives.
ReplayNext ==
    /\ last.ret.kind = "position"
    /\ last.ret.at = "replay"
    /\ last.ret.pending # <<>>
    /\ LET ref == Head(last.ret.pending)
           r == reconstruct_one(Registry, ref)
       IN  /\ context' = r.context
           /\ references' = r.references
           /\ last' = Call("reconstruct", ref, r.exc,
                           RestoreAt(IF r.exc # NoExc THEN "raised"
                                    ELSE "replay",
                                    last.ret.state, last.ret.base_dataframes,
                                    Tail(last.ret.pending), r.ran, r.about))

\* The loop is through: restore_from_state returns.
ReturnFromRestore ==
    /\ last.ret.kind = "position"
    /\ last.ret.at = "replay"
    /\ last.ret.pending = <<>>
    /\ last' = Call("restore_from_state", <<>>, NoExc,
                    RestoreAt("returned", last.ret.state,
                             last.ret.base_dataframes, <<>>, FALSE, <<>>))
    /\ UNCHANGED <<context, references>>

NextReplay ==
    \/ \E state \in RestoreStates :
        \E base_dataframes \in RestoreMappings(state) :
            BeginRestore(state, base_dataframes)
    \/ RegisterBase
    \/ BeginReplay
    \/ ReplayNext
    \/ ReturnFromRestore
    \/ Fresh

SpecReplay == Init /\ [][NextReplay]_vars

\* The steps end where restore_from_state, taken as a whole, ends.
StepsAgreeWithCall ==
    (last.ret.kind = "position" /\ last.ret.at \in {"raised", "returned"}) =>
        LET r == restore_from_state(EmptyRegistry, last.ret.state,
                                    last.ret.base_dataframes)
        IN  /\ r.context = context
            /\ r.references = references
            /\ r.exc = last.exc
            /\ r.about = last.ret.about

\* C34: during restore, the source_query of a derivative is executed only
\* at a moment when every id in its parent_ids is registered in both
\* stores, the context and the reference map: no query is replayed before
\* one of its parents is registered.
C34_ParentsBeforeReplay ==
    [][(last'.op = "reconstruct" /\ last'.ret.ran) =>
            \A pid \in Range(last'.arg.parent_ids) :
                /\ pid \in RefKeys(references)
                /\ pid \in FrameIds(context)
                /\ pid \in DOMAIN context.sql]_vars

\* The query of a derivative of two derivatives, listed in the state before
\* none of them, has been replayed.
C34_Witness ==
    /\ last.op = "reconstruct"
    /\ last.ret.ran
    /\ last.exc = NoExc
    /\ Len(last.arg.parent_ids) = 2
    /\ last.arg.id \in RefKeys(references)

\* C35: at every point during and after restore_from_state, every id
\* restore has registered is bound to a table that passed validation
\* against the reference of that id: the bases are validated before any of
\* them is registered, the result of each replay before it is registered,
\* and a table that fails validation is never registered.
C35_RegisteredValidated ==
    last.ret.kind = "position" =>
        /\ \A id \in FrameIds(context) :
                /\ id \in RefKeys(references)
                /\ RefAt(references, id) \in Range(last.ret.state.references)
                /\ validate_against_reference(
                        context.frames[id], RefAt(references, id)).exc = NoExc
        /\ (last.op = "check_bases" /\ last.exc # NoExc) =>
                FrameIds(context) = {}
        /\ (/\ last.op = "reconstruct"
            /\ last.ret.ran
            /\ last.ret.about = last.arg.name) =>
                last.arg.id \notin FrameIds(context)

\* The base has been registered, and the replay of a derivative has been
\* refused because its result is not what the reference records.
C35_Witness ==
    /\ last.op = "reconstruct"
    /\ last.ret.ran
    /\ IsValueError(last.exc)
    /\ last.ret.state = MismatchState
    /\ FrameIds(context) = {MkId(1)}

\* C36: during replay, a reference with at least one parent and no
\* source_query makes restore raise an error that names the reference,
\* without executing a query for it and without registering it; a
\* reference without parents that was not supplied as a base makes restore
\* raise as well, and is not replayed.
C36_NoQueryRaises ==
    [][/\ (/\ last'.op = "reconstruct"
           /\ last'.arg.id \notin RefKeys(references)
           /\ \/ last'.arg.source_query.kind = "none"
              \/ last'.arg.parent_ids = <<>>) =>
            /\ IsValueError(last'.exc)
            /\ last'.ret.about = last'.arg.name
            /\ ~last'.ret.ran
            /\ last'.arg.id \notin RefKeys(references')
            /\ last'.arg.id \notin FrameIds(context')
       /\ (last'.op = "check_bases" /\ last'.arg.missing_base) =>
            /\ IsValueError(last'.exc)
            /\ last'.ret.at = "raised"]_vars

\* The replay has reached a derivative that has a parent and no query, and
\* restore has raised with the two references before it registered.
C36_Witness ==
    /\ last.op = "reconstruct"
    /\ last.arg.parent_ids # <<>>
    /\ last.arg.source_query = NoQuery
    /\ IsValueError(last.exc)
    /\ Len(references) = 2

(***************************************************************************)
(* C37: references are never edited in place: a reference registered       *)
(* before a step of the toolkit and still registered after it is the same  *)
(* reference, whatever the step registers, unregisters or looks up;        *)
(* get_dataframe_id, get_dataframe_reference and export_state change       *)
(* neither the context nor the reference map.                              *)
(***************************************************************************)
C37_ReferencesNotEdited ==
    [][/\ \A i \in 1..Len(references) :
            references[i].id \in RefKeys(references') =>
                RefAt(references', references[i].id) = references[i]
       /\ last'.op \in {"get_dataframe_id", "get_dataframe_reference",
                        "export_state"} =>
            /\ references' = references
            /\ context' = context]_vars

\* A second name has been registered next to a reference that was there.
C37_Witness ==
    /\ last.op = "register_dataframe"
    /\ last.exc = NoExc
    /\ Len(references) = 2
    /\ references[2].name = last.arg

(***************************************************************************)
(* C38 as stated: a failing DataFrameContext.unregister(ids) leaves the    *)
(* context unchanged; when some given id is not bound before the call, the *)
(* call raises KeyError and every id that was bound before the call is     *)
(* still bound afterwards, the ids listed before the unbound one included. *)
(***************************************************************************)
C38_FailedUnregisterUnchanged ==
    [][last'.op = "Context.unregister"
        => /\ last'.exc # NoExc => context' = context
           /\ ~(Range(last'.arg) \subseteq FrameIds(context)) =>
                /\ last'.exc = "KeyError"
                /\ FrameIds(context) \subseteq FrameIds(context')]_vars

\* The ids given before the first position at which the loop of unregister
\* finds an id unbound: an id that was not bound before the call, or one that
\* was given at an earlier position.
RemovedBeforeFailure(ctx, frame_ids) ==
    LET fails(i) == \/ frame_ids[i] \notin FrameIds(ctx)
                    \/ \E j \in 1..(i - 1) : frame_ids[j] = frame_ids[i]
    IN  {frame_ids[i] : i \in {k \in 1..Len(frame_ids) :
                                  \A j \in 1..k : ~fails(j)}}

\* What a failing unregister does: it raises KeyError having removed the ids
\* given before the offending one, and no others.
FailedUnregisterRemovesPrefix ==
    [][(last'.op = "Context.unregister" /\ last'.exc # NoExc)
        => /\ last'.exc = "KeyError"
           /\ FrameIds(context') =
                FrameIds(context) \ RemovedBeforeFailure(context, last'.arg)
           /\ DOMAIN context'.sql =
                DOMAIN context.sql \ RemovedBeforeFailure(context, last'.arg)]_vars

(***************************************************************************)
(* A registry that holds bases and derivatives.  A derivative is made the  *)
(* way the callers of the registry make one: a query over a registered     *)
(* parent is executed in the context, DataFrameReference.from_dataframe    *)
(* records the result with the parent's id and the query, and              *)
(* DataFrameRegistry.register stores the pair.                             *)
(***************************************************************************)
\* Most dataframes held at once by the registry of SpecLineage.
MaxHeld == 3

\* registry.register of a base: a reference without parents or query.
RegisterBaseReference(name, dataframe, gen) ==
    LET reference == from_dataframe(name, dataframe, gen, <<>>, NoQuery)
        r == Registry_register(Registry, reference, dataframe)
    IN  /\ Len(references) < MaxHeld
        /\ context' = r.context
        /\ references' = r.references
        /\ last' = Call("Registry.register", reference.id, r.exc, NoRet)

RegisterDerivative(name, parent_id, where, gen) ==
    LET source_query == Select(parent_id, where)
        q == Context_execute_sql(context, source_query)
        reference == from_dataframe(name, q.frame, gen, <<parent_id>>,
                                    source_query)
        r == Registry_register(Registry, reference, q.frame)
    IN  /\ Len(references) < MaxHeld
        /\ parent_id \in RefKeys(references)
        /\ q.exc = NoExc
        /\ context' = r.context
        /\ references' = r.references
        /\ last' = Call("Registry.register", reference.id, r.exc, NoRet)

NextLineage ==
    \/ \E gen \in GeneratedIds : RegisterBaseReference(N_sales, TA, gen)
    \/ \E parent_id \in GeneratedIds, gen \in GeneratedIds :
            RegisterDerivative(N_df_sales, parent_id, TRUE, gen)
    \/ \E dataframe_id \in GeneratedIds : RegistryUnregister(dataframe_id)
    \/ \E name \in PlainNames : UnregisterDataframe(name)
    \/ ExportState

SpecLineage == Init /\ [][NextLineage]_vars

\* Every parent id of every reference of the list is the id of a reference
\* of the list.
ParentsResolve(refs) ==
    \A i \in 1..Len(refs) : Range(refs[i].parent_ids) \subseteq RefKeys(refs)

(***************************************************************************)
(* C39 as stated: in every registry state reached by registering bases,    *)
(* registering derivatives whose parents are registered at that time, and  *)
(* unregistering, every id in the parent_ids of a registered reference is  *)
(* itself a registered id; and so in every state that export_state         *)
(* returns each parent id is the id of a reference of that state.          *)
(***************************************************************************)
C39_ParentsRegistered ==
    /\ ParentsResolve(references)
    /\ (last.op = "export_state" /\ last.exc = NoExc) =>
            ParentsResolve(last.ret.value.references)

\* What does hold: only an unregistration takes a parent away.  A step that
\* is not a successful unregistration keeps every parent id resolving.
ParentsRegisteredUntilUnregister ==
    [][(/\ ParentsResolve(references)
        /\ ~(/\ last'.op \in {"Registry.unregister", "unregister_dataframe"}
             /\ last'.exc = NoExc))
        => ParentsResolve(references')]_vars

\* What the dangling parent costs: a state exported with a parent id that
\* no reference has cannot be restored, whatever bases are supplied.
DanglingExportNotRestorable ==
    (/\ last.op = "export_state"
     /\ ~ParentsResolve(last.ret.value.references))
    => \A base_dataframes \in BaseMappings(last.ret.value) :
            restore_from_state(EmptyRegistry, last.ret.value,
                               base_dataframes).exc = "ValueError"
====
